---- MODULE Spec2Model ----
(***************************************************************************)
(* RTSP session/stream core of the video streamer: the Handler of package  *)
(* server (stream reference, publisher reference, read/write lock), the    *)
(* StartServer start-up sequence that installs the file-backed stream,     *)
(* the client sessions that drive the handler callbacks, and the run()     *)
(* task of the file streamer that paces a transport-stream file into the   *)
(* stream in a loop (specifications StreamerSpec and StreamerFairSpec).    *)
(*                                                                         *)
(* What the RTSP library (gortsplib, not part of the repository) does is   *)
(* fixed as follows:                                                       *)
(*  - a handler callback runs in the goroutine of the session (or          *)
(*    connection) that sent the request, one request at a time per         *)
(*    session; the packet callback installed by OnPacketRTPAny runs in a   *)
(*    different goroutine and keeps being invoked until the session has    *)
(*    been torn down;                                                      *)
(*  - ServerSession.Close() only requests the shutdown of the session; the *)
(*    tear-down and the call of OnSessionClose follow in the goroutine of  *)
(*    that session, which handles no further request in between;           *)
(*  - ANNOUNCE is delivered only to a session in its initial state, RECORD *)
(*    only to a session that announced and set up its media, PLAY only     *)
(*    after a successful reader SETUP;                                     *)
(*  - ServerStream.Close() marks the stream closed and closes its reader   *)
(*    sessions; a write to a closed stream returns an error;               *)
(*  - calling Close() or WritePacketRTP() on a nil *ServerStream, or       *)
(*    Close() on a nil *ServerSession, dereferences nil: the goroutine     *)
(*    panics and the process stops;                                        *)
(*  - ServerStream.Initialize() succeeds when Server and Desc are set.     *)
(***************************************************************************)
EXTENDS Integers, Sequences, FiniteSets, TLC

(* ---------------------------- bounds ----------------------------------- *)
NumSessions == 2        \* client connections / sessions

Sessions == 1..NumSessions

(* holders of the write lock *)
NoLock == -1
MainTask == 0

(* announced descriptions: the codec of each media, in order *)
Descriptions == {<<"H264">>, <<"Opus">>, <<"Opus", "H264", "H264">>}
FileDesc == <<"H264">>

(* RTP packets a publisher sends, told apart by their payload *)
Packets == {"p1", "p2"}

NoDesc == <<>>

NoResp == [req |-> "none", status |-> "none", stream |-> 0, err |-> FALSE,
           seen |-> 0, preRecord |-> FALSE]
NoPre == [stream |-> 0, publisher |-> 0, streams |-> <<>>, closeCalled |-> {}, desc |-> NoDesc]
NoFwd == [sess |-> 0, medi |-> 0, pkt |-> "", seen |-> 0, out |-> <<>>, result |-> "none"]

VARIABLES
  pcMain,       \* position of StartServer (or "standalone": handler served without it)
  wlock,        \* h.mutex: holder of the write lock (NoLock when free)
  stream,       \* h.stream: 0 is nil, otherwise the index of the stream
  publisher,    \* h.publisher: 0 is nil, otherwise the session
  streams,      \* every ServerStream created so far, by index
  pacing,       \* the file streamer's background task has been started
  sessState,    \* per session: state of the RTSP session
  pc,           \* per session: handler the session's goroutine is in
  setupped,     \* sessions that set up media while in pre-record
  reading,      \* per session: stream the session was attached to as reader
  closeCalled,  \* sessions on which ServerSession.Close() was called
  written,      \* <<session, stream>>: a packet of session reached WritePacketRTP of open stream
  fwd,          \* the run of the forwarding callback made by the step that led here
                \* (NoFwd after any other step): the packet and media it was invoked
                \* with, the h.stream it read, what it passed on and the outcome
  last,         \* response of the DESCRIBE, SETUP or ANNOUNCE handler that returned last,
                \* with the h.stream it read and whether the session was in pre-record
  pre,          \* handler state when the current write-lock holder acquired the lock
  unguarded,    \* kinds of access to h.stream made so far without holding the lock
  crashed,      \* "" or the function that panicked
  \* --- the file streamer's task run() ---
  variant,      \* "fileStreamer" or "mjpegtsFileStreamer" (IDR gating, initial SPS/PPS)
  hasParams,    \* the H264 format of the stream carries SPS and PPS
  f,            \* r.f: the access units the MPEG-TS file holds, in file order
  rpc,          \* position of run(): "off", "start", "setup", "read", "panicked"
  randomStart,  \* uint32: the packet-timestamp base
  lastRTPTime,  \* uint32: declared anew in every pass
  firstDTS,     \* Nil or the decoded DTS of the first access unit emitted in the pass
  firstTime,    \* wall-clock instant taken with firstDTS (ns)
  foundIDR,     \* mjpegtsFileStreamer only
  timeDecoder,  \* state of the pass's mpegts.TimeDecoder
  offset,       \* position in r.f: the number of access units read since the last seek
  passNo,       \* number of the pass (1 is the first)
  now,          \* wall clock (ns)
  slowLeft,     \* slow steps the environment may still take
  stopped,      \* the server stopped: the deferred r.Close() and stream.Close() have run
  sink,         \* every packet handed to stream.WritePacketRTP, in order
  \* --- extraction of the SPS and PPS ---
  data,         \* the buffer in Annex-B form: ffmpeg's output, the raw file
  nalus,        \* the NAL units data was made of, each with its start code
  scanned,      \* the scan function applied to data and what it returned
  container,    \* the path of the video file ends in .mp4 or .flv
  probe,        \* what ffprobe did: failed, no extradata, or the extradata
  ffmpeg,       \* what ffmpeg did: "fail" or "ok" (its output is data)
  pcExtract,    \* position of StartServer around the extraction
  tried,        \* the extraction functions StartServer called, in order
  h264Format,   \* SPS and PPS of the H264 format StartServer built
  \* --- ExtractH264ParametersFromStream ---
  spc,          \* position: "off", "loop", "returned"
  bytesRead,    \* the loop's count of bytes
  consumed,     \* bytes the reads have taken from the file
  found,        \* types of the parameter sets in params: 7 (SPS), 8 (PPS)
  returned,     \* what the function returned
  \* --- ExtractH264ParametersFromPipe ---
  cpc,          \* position of the caller: "off", "start", "select", "returned"
  gpc,          \* position of the reader goroutine
  timeout,      \* the timeout argument
  pipe,         \* what the pipe does while it is read
  elapsed,      \* time since the call
  canceled,     \* cancel() was called
  waitLeft,     \* time left until the read deadline, or until the sleep ends
  noDataCount,  \* consecutive reads without data
  accumulated,  \* len(accumulated)
  pipeFound,    \* types of the parameter sets in params: 7 (SPS), 8 (PPS)
  doneChan,     \* the channel done
  errChan,      \* the channel errChan
  outcome,      \* what the function returned, and when
  \* --- run() of mjpegStreamer ---
  pipeStream,   \* the bytes the pipe delivers
  pipePos,      \* the position of the next byte to read
  buffer,       \* buffer at the top of the loop
  peakLen,      \* len(buffer) right after the append of the last turn
  frameCount,   \* frameCount
  failedReads,  \* reads that failed, counted modulo MaxFailed + 1
  idle,         \* the last read returned nothing
  sinkClosed,   \* the stream the task writes to was closed
  \* --- NewFileStreamer, Initialize, Close ---
  path,          \* the path given to NewFileStreamer
  onDisk,        \* what is at the path: "missing", "present", "unreadable"
  selected,      \* the type of the streamer NewFileStreamer made
  npc,           \* position: "off", "new", "created", "initialized", "failed", ...
  streamer,      \* the fields of the streamer
  closedHandles, \* the files that were closed
  taskHandle,    \* the file the pacing task reads
  transcodes,    \* runs of MP4ToTS
  initErr        \* what Initialize returned

handlerVars == <<pcMain, wlock, stream, publisher, streams, pacing, sessState, pc,
                 setupped, reading, closeCalled, written, fwd, last, pre, unguarded, crashed>>

streamerVars == <<variant, hasParams, f, rpc, randomStart, lastRTPTime, firstDTS, firstTime,
                  foundIDR, timeDecoder, offset, passNo, now, slowLeft, stopped, sink>>

extractVars == <<data, nalus, scanned, container, probe, ffmpeg, pcExtract, tried, h264Format>>

fromStreamVars == <<spc, bytesRead, consumed, found, returned>>

fromPipeVars == <<cpc, gpc, timeout, pipe, elapsed, canceled, waitLeft, noDataCount, accumulated,
                  pipeFound, doneChan, errChan, outcome>>

mjpegVars == <<pipeStream, pipePos, buffer, peakLen, frameCount, failedReads, idle, sinkClosed>>

newVars == <<path, onDisk, selected, npc, streamer, closedHandles, taskHandle, transcodes, initErr>>

utilVars == <<extractVars, fromStreamVars, fromPipeVars, mjpegVars, newVars>>

(* what the steps of one part leave alone *)
extractRest == <<handlerVars, streamerVars, fromStreamVars, fromPipeVars, mjpegVars, newVars>>
fromStreamRest == <<handlerVars, streamerVars, extractVars, fromPipeVars, mjpegVars, newVars>>
fromPipeRest == <<handlerVars, streamerVars, extractVars, fromStreamVars, mjpegVars, newVars>>

vars == <<handlerVars, streamerVars, utilVars>>

(* ------------------------- helper operators ---------------------------- *)

(* description.Session.FindFormat(&forma) with forma *format.H264 *)
HasH264(d) == \E i \in 1..Len(d) : d[i] = "H264"

(* the type of the media that carries the codec *)
MediaType(codec) == IF codec = "H264" THEN "video" ELSE "audio"

(* number of video media entries of a description *)
VideoCount(d) == Cardinality({i \in 1..Len(d) : MediaType(d[i]) = "video"})

(* the description session s announced, once its ANNOUNCE was accepted *)
AnnouncedBy(s) == streams[CHOOSE x \in 1..Len(streams) : streams[x].from = s].desc

(* ServerStream.Close(): mark closed *)
MarkClosed(ss, x) == [ss EXCEPT ![x].closed = TRUE]

(* sessions attached as readers to stream x; ServerStream.Close() closes them *)
ReadersOf(x) == {s \in Sessions : reading[s] = x}

Running == crashed = ""

Nil == -1

(* the file streamer's task does not exist *)
StreamerOff ==
  /\ variant = "fileStreamer"
  /\ hasParams = FALSE
  /\ f = <<>>
  /\ rpc = "off"
  /\ randomStart = <<0, 0>>
  /\ lastRTPTime = <<0, 0>>
  /\ firstDTS = Nil
  /\ firstTime = 0
  /\ foundIDR = FALSE
  /\ timeDecoder = [initialized |-> FALSE, prev |-> 0, overall |-> 0]
  /\ offset = 0
  /\ passNo = 0
  /\ now = 0
  /\ slowLeft = 0
  /\ stopped = FALSE
  /\ sink = <<>>

NoParams == [SPS |-> <<>>, PPS |-> <<>>, err |-> ""]

(* the scan functions did not run, StartServer did not reach the extraction *)
ExtractOff ==
  /\ data = <<>>
  /\ nalus = <<>>
  /\ scanned = [by |-> "none", SPS |-> <<>>, PPS |-> <<>>, err |-> ""]
  /\ container = FALSE
  /\ probe = [out |-> "fail", hex |-> <<>>]
  /\ ffmpeg = "fail"
  /\ pcExtract = "off"
  /\ tried = <<>>
  /\ h264Format = NoParams

MaxBytes == 1048576
ChunkSize == 8192
ReadSizes == {0, ChunkSize - 1, ChunkSize}
ReadErrors == {"nil", "EOF", "other"}
ChunkContents == {[valid |-> FALSE, types |-> {}]}
                   \cup {[valid |-> TRUE, types |-> t] : t \in SUBSET {7, 8}}

NoReturn == [ret |-> "none", SPS |-> FALSE, PPS |-> FALSE]

FromStreamOff ==
  /\ spc = "off"
  /\ bytesRead = 0
  /\ consumed = 0
  /\ found = {}
  /\ returned = NoReturn

(* ExtractH264ParametersFromPipe; time is counted in ticks of 100 ms *)
ShortTimeout == 5           \* a timeout argument of 0.5 s
LongTimeout == 120          \* a timeout argument of 12 s
(* a call: the timeout, and what the pipe does while it is read: "any" is  *)
(* every mix of the below; "silent" has a writer that writes nothing;      *)
(* "closed" has lost its writers                                           *)
Calls == {<<ShortTimeout, "any">>, <<LongTimeout, "silent">>, <<LongTimeout, "closed">>}
ReadDeadline == 5           \* 500 * time.Millisecond
SleepTime == 1              \* 100 * time.Millisecond
MaxNoDataCount == 100
ChanCap == 1
ParseAt == 1024
TrimAbove == 32768
TrimTo == 16384
PipeReadSizes == {512, ChunkSize}

NoOutcome == [ret |-> "none", got |-> {}, at |-> 0]

FromPipeOff ==
  /\ cpc = "off"
  /\ gpc = "off"
  /\ timeout = 0
  /\ pipe = "none"
  /\ elapsed = 0
  /\ canceled = FALSE
  /\ waitLeft = 0
  /\ noDataCount = 0
  /\ accumulated = 0
  /\ pipeFound = {}
  /\ doneChan = <<>>
  /\ errChan = <<>>
  /\ outcome = NoOutcome

(* the raw-pipe streamer: no stream is read *)
NoStream == [head |-> <<>>, loop |-> <<>>]

MjpegOff ==
  /\ pipeStream = NoStream
  /\ pipePos = 0
  /\ buffer = <<>>
  /\ peakLen = 0
  /\ frameCount = 0
  /\ failedReads = 0
  /\ idle = FALSE
  /\ sinkClosed = FALSE

(* the fields of a streamer nobody made: no stream, no file *)
NoStreamer == [stream |-> 0, f |-> 0, temp |-> 0, s |-> [stream |-> 0, f |-> 0]]

(* NewFileStreamer was not called *)
FileStreamerOff ==
  /\ path = <<>>
  /\ onDisk = "missing"
  /\ selected = "none"
  /\ npc = "off"
  /\ streamer = NoStreamer
  /\ closedHandles = {}
  /\ taskHandle = 0
  /\ transcodes = 0
  /\ initErr = ""

(* none of the functions of package utils and no raw-pipe streamer runs *)
UtilOff ==
  /\ ExtractOff
  /\ FromStreamOff
  /\ FromPipeOff
  /\ MjpegOff
  /\ FileStreamerOff

ServerUp == pcMain \in {"started", "described", "streamReady", "streamSet", "initialized",
                        "ready", "standalone"}

(* the goroutine of session s is ready to handle a request *)
Serving(s) == pc[s] = "idle" /\ s \notin closeCalled

Snapshot(d) == [stream |-> stream, publisher |-> publisher, streams |-> streams,
                closeCalled |-> closeCalled, desc |-> d]

(* the handler NewHandler() returns, before StartServer has run *)
HandlerStart ==
  /\ pcMain = "start"
  /\ wlock = NoLock
  /\ stream = 0
  /\ publisher = 0
  /\ streams = <<>>
  /\ pacing = FALSE
  /\ sessState = [s \in Sessions |-> "none"]
  /\ pc = [s \in Sessions |-> "idle"]
  /\ setupped = {}
  /\ reading = [s \in Sessions |-> 0]
  /\ closeCalled = {}
  /\ written = {}
  /\ fwd = NoFwd
  /\ last = NoResp
  /\ pre = NoPre
  /\ unguarded = {}
  /\ crashed = ""

Init ==
  /\ HandlerStart
  /\ StreamerOff
  /\ UtilOff

(* --------------------------- StartServer ------------------------------- *)

(* h := NewHandler(); h.Lock() *)
MainLock ==
  /\ Running /\ pcMain = "start" /\ wlock = NoLock
  /\ pcMain' = "locked"
  /\ wlock' = MainTask
  /\ UNCHANGED <<stream, publisher, streams, pacing, sessState, pc, setupped,
                 reading, closeCalled, written, last, pre, unguarded, crashed>>
  /\ fwd' = NoFwd
  /\ UNCHANGED <<streamerVars, utilVars>>

(* tls.LoadX509KeyPair (panic on error), SetServer, rtspServer.Start() *)
MainStartServer ==
  /\ Running /\ pcMain = "locked"
  /\ \E certOk \in BOOLEAN, startOk \in BOOLEAN :
       IF ~certOk THEN crashed' = "StartServer" /\ pcMain' = pcMain
       ELSE /\ crashed' = crashed
            /\ pcMain' = IF startOk THEN "started" ELSE "returned"
  /\ UNCHANGED <<wlock, stream, publisher, streams, pacing, sessState, pc, setupped,
                 reading, closeCalled, written, last, pre, unguarded>>
  /\ fwd' = NoFwd
  /\ UNCHANGED <<streamerVars, utilVars>>

(* parameter extraction and construction of the description *)
MainBuildDesc ==
  /\ Running /\ pcMain = "started"
  /\ pcMain' = "described"
  /\ UNCHANGED <<wlock, stream, publisher, streams, pacing, sessState, pc, setupped,
                 reading, closeCalled, written, last, pre, unguarded, crashed>>
  /\ fwd' = NoFwd
  /\ UNCHANGED <<streamerVars, utilVars>>

(* stream := &gortsplib.ServerStream{...}; stream.Initialize() *)
MainInitStream ==
  /\ Running /\ pcMain = "described"
  /\ streams' = Append(streams, [desc |-> FileDesc, from |-> 0, prev |-> 0, closed |-> FALSE])
  /\ pcMain' = "streamReady"
  /\ UNCHANGED <<wlock, stream, publisher, pacing, sessState, pc, setupped,
                 reading, closeCalled, written, last, pre, unguarded, crashed>>
  /\ fwd' = NoFwd
  /\ UNCHANGED <<streamerVars, utilVars>>

(* h.SetStream(stream): the accessor itself takes no lock; the caller holds it *)
MainSetStream ==
  /\ Running /\ pcMain = "streamReady"
  /\ stream' = Len(streams)
  /\ unguarded' = IF wlock = MainTask THEN unguarded ELSE unguarded \cup {"write"}
  /\ pcMain' = "streamSet"
  /\ UNCHANGED <<wlock, publisher, streams, pacing, sessState, pc, setupped,
                 reading, closeCalled, written, last, pre, crashed>>
  /\ fwd' = NoFwd
  /\ UNCHANGED <<streamerVars, utilVars>>

(* r := NewFileStreamer(stream, path); r.Initialize(); on error the deferred *)
(* stream.Close() runs and StartServer returns with the lock still held      *)
MainInitStreamer ==
  /\ Running /\ pcMain = "streamSet"
  /\ \E ok \in BOOLEAN :
       IF ok THEN /\ pacing' = TRUE
                  /\ pcMain' = "initialized"
                  /\ UNCHANGED <<streams, closeCalled>>
       ELSE /\ pacing' = pacing
            /\ pcMain' = "returned"
            /\ streams' = MarkClosed(streams, stream)
            /\ closeCalled' = closeCalled \cup ReadersOf(stream)
  /\ UNCHANGED <<wlock, stream, publisher, sessState, pc, setupped,
                 reading, written, last, pre, unguarded, crashed>>
  /\ fwd' = NoFwd
  /\ UNCHANGED <<streamerVars, utilVars>>

(* h.Unlock(); rtspServer.Wait() *)
MainUnlock ==
  /\ Running /\ pcMain = "initialized"
  /\ wlock' = NoLock
  /\ pcMain' = "ready"
  /\ UNCHANGED <<stream, publisher, streams, pacing, sessState, pc, setupped,
                 reading, closeCalled, written, last, pre, unguarded, crashed>>
  /\ fwd' = NoFwd
  /\ UNCHANGED <<streamerVars, utilVars>>

(* The Handler driven by an RTSP server right after NewHandler()/SetServer(), *)
(* without StartServer's file-backed stream: no stream, no publisher, lock free *)
ServeHandler ==
  /\ Running /\ pcMain = "start"
  /\ pcMain' = "standalone"
  /\ UNCHANGED <<wlock, stream, publisher, streams, pacing, sessState, pc, setupped,
                 reading, closeCalled, written, last, pre, unguarded, crashed>>
  /\ fwd' = NoFwd
  /\ UNCHANGED <<streamerVars, utilVars>>

(* ------------------------------ Handler -------------------------------- *)

(* the read lock is not taken at all *)
RLockFree_NotTaken == TRUE

(* mutex.RLock() returns only while no writer holds the lock *)
RLockFree == wlock = NoLock

(* a DESCRIBE is read from a connection that has no session yet and          *)
(* OnDescribe is invoked; it blocks in RLock while the lock is write-held    *)
DescribeReq(s) ==
  /\ Running /\ ServerUp
  /\ Serving(s) /\ sessState[s] = "none"
  /\ pc' = [pc EXCEPT ![s] = "describe"]
  /\ UNCHANGED <<pcMain, wlock, stream, publisher, streams, pacing, sessState,
                 setupped, reading, closeCalled, written, last, pre, unguarded, crashed>>
  /\ fwd' = NoFwd
  /\ UNCHANGED <<streamerVars, utilVars>>

(* the stream reference is returned with OK without the nil check *)
DescribeResponse_NoNilCheck(st) == [status |-> "OK", stream |-> st]

(* OnDescribe, between RLock and RUnlock *)
DescribeResponse(st) ==
  IF st = 0 THEN [status |-> "NotFound", stream |-> 0]
  ELSE [status |-> "OK", stream |-> st]

OnDescribe(s) ==
  /\ Running /\ pc[s] = "describe"
  /\ RLockFree
  /\ LET r == DescribeResponse(stream)
     IN last' = [req |-> "DESCRIBE", status |-> r.status, stream |-> r.stream, err |-> FALSE,
                 seen |-> stream, preRecord |-> FALSE]
  /\ pc' = [pc EXCEPT ![s] = "idle"]
  /\ UNCHANGED <<pcMain, wlock, stream, publisher, streams, pacing, sessState,
                 setupped, reading, closeCalled, written, pre, unguarded, crashed>>
  /\ fwd' = NoFwd
  /\ UNCHANGED <<streamerVars, utilVars>>

(* OnSetup of a session in ServerSessionStatePreRecord: answered before any lock *)
OnSetupPublisher(s) ==
  /\ Running /\ ServerUp
  /\ Serving(s) /\ sessState[s] = "preRecord"
  /\ last' = [req |-> "SETUP", status |-> "OK", stream |-> 0, err |-> FALSE,
              seen |-> 0, preRecord |-> TRUE]
  /\ setupped' = setupped \cup {s}
  /\ UNCHANGED <<pcMain, wlock, stream, publisher, streams, pacing, sessState, pc,
                 reading, closeCalled, written, pre, unguarded, crashed>>
  /\ fwd' = NoFwd
  /\ UNCHANGED <<streamerVars, utilVars>>

(* the stream reference is returned with OK without the nil check *)
SetupResponse_NoNilCheck(st) == [status |-> "OK", stream |-> st]

(* OnSetup of any other session, between RLock and RUnlock *)
SetupResponse(st) ==
  IF st = 0 THEN [status |-> "NotFound", stream |-> 0]
  ELSE [status |-> "OK", stream |-> st]

(* a SETUP of a reader (a new session, or one that is setting up to play);   *)
(* the library attaches the session to the returned stream unless closed     *)
OnSetupReader(s) ==
  /\ Running /\ ServerUp
  /\ Serving(s) /\ sessState[s] \in {"none", "initial", "prePlay"}
  /\ RLockFree
  /\ LET r == SetupResponse(stream)
         attached == r.stream # 0 /\ ~streams[r.stream].closed
     IN /\ last' = [req |-> "SETUP", status |-> r.status, stream |-> r.stream, err |-> FALSE,
                    seen |-> stream, preRecord |-> FALSE]
        /\ reading' = [reading EXCEPT ![s] = IF attached THEN r.stream ELSE @]
        /\ sessState' = [sessState EXCEPT ![s] = IF attached THEN "prePlay"
                                                  ELSE IF @ = "none" THEN "initial" ELSE @]
  /\ UNCHANGED <<pcMain, wlock, stream, publisher, streams, pacing, pc,
                 setupped, closeCalled, written, pre, unguarded, crashed>>
  /\ fwd' = NoFwd
  /\ UNCHANGED <<streamerVars, utilVars>>

(* OnPlay: unconditional OK *)
OnPlay(s) ==
  /\ Running /\ ServerUp
  /\ Serving(s) /\ sessState[s] = "prePlay"
  /\ sessState' = [sessState EXCEPT ![s] = "play"]
  /\ UNCHANGED <<pcMain, wlock, stream, publisher, streams, pacing, pc,
                 setupped, reading, closeCalled, written, last, pre, unguarded, crashed>>
  /\ fwd' = NoFwd
  /\ UNCHANGED <<streamerVars, utilVars>>

(* OnAnnounce, "disconnect existing publisher": the receiver of each Close() *)
(* call, in program order; 0 is a nil receiver *)
DisconnectCalls(st, pub) ==
  (IF st # 0 THEN <<[kind |-> "stream", target |-> st], [kind |-> "session", target |-> pub]>>
   ELSE <<>>)
  \o
  (IF pub # 0 THEN <<[kind |-> "stream", target |-> st], [kind |-> "session", target |-> pub]>>
   ELSE <<>>)

(* the calls executed: up to, not including, the first one on a nil receiver *)
RECURSIVE Executed(_)
Executed(calls) ==
  IF calls = <<>> \/ Head(calls).target = 0 THEN <<>>
  ELSE <<Head(calls)>> \o Executed(Tail(calls))

(* OnAnnounce with ctx.Description = d, from mutex.Lock() to the end of the  *)
(* disconnect step                                                           *)
OnAnnounceDisconnect(s, d) ==
  /\ Running /\ ServerUp
  /\ Serving(s) /\ sessState[s] \in {"none", "initial"}
  /\ wlock = NoLock
  /\ wlock' = s
  /\ pre' = Snapshot(d)
  /\ sessState' = [sessState EXCEPT ![s] = "initial"]
  /\ LET calls == DisconnectCalls(stream, publisher)
         done == Executed(calls)
         closedStreams == {done[i].target : i \in {j \in 1..Len(done) : done[j].kind = "stream"}}
         closedSessions == {done[i].target : i \in {j \in 1..Len(done) : done[j].kind = "session"}}
     IN /\ streams' = [x \in 1..Len(streams) |->
                         IF x \in closedStreams THEN [streams[x] EXCEPT !.closed = TRUE]
                         ELSE streams[x]]
        /\ closeCalled' = closeCalled \cup closedSessions
                            \cup UNION {ReadersOf(x) : x \in closedStreams}
        /\ IF Len(done) < Len(calls)
           THEN crashed' = "OnAnnounce" /\ pc' = pc
           ELSE crashed' = crashed /\ pc' = [pc EXCEPT ![s] = "announce_find"]
  /\ UNCHANGED <<pcMain, stream, publisher, pacing, setupped, reading, written, last,
                 unguarded>>
  /\ fwd' = NoFwd
  /\ UNCHANGED <<streamerVars, utilVars>>

(* OnAnnounce from FindFormat to the return; the deferred Unlock runs on return *)
OnAnnounceFind(s) ==
  /\ Running /\ pc[s] = "announce_find" /\ wlock = s
  /\ IF ~HasH264(pre.desc)
     THEN /\ last' = [req |-> "ANNOUNCE", status |-> "BadRequest", stream |-> 0, err |-> TRUE,
                      seen |-> 0, preRecord |-> FALSE]
          /\ UNCHANGED <<stream, publisher, streams, sessState>>
     ELSE /\ streams' = Append(streams, [desc |-> pre.desc, from |-> s,
                                         prev |-> publisher, closed |-> FALSE])
          /\ stream' = Len(streams) + 1
          /\ publisher' = s
          /\ sessState' = [sessState EXCEPT ![s] = "preRecord"]
          /\ last' = [req |-> "ANNOUNCE", status |-> "OK", stream |-> 0, err |-> FALSE,
                      seen |-> 0, preRecord |-> FALSE]
  /\ wlock' = NoLock
  /\ pre' = NoPre
  /\ pc' = [pc EXCEPT ![s] = "idle"]
  /\ UNCHANGED <<pcMain, pacing, setupped, reading, closeCalled, written, unguarded, crashed>>
  /\ fwd' = NoFwd
  /\ UNCHANGED <<streamerVars, utilVars>>

(* OnRecord: installs the forwarding callback on the session *)
OnRecord(s) ==
  /\ Running /\ ServerUp
  /\ Serving(s) /\ sessState[s] = "preRecord" /\ s \in setupped
  /\ sessState' = [sessState EXCEPT ![s] = "record"]
  /\ UNCHANGED <<pcMain, wlock, stream, publisher, streams, pacing, pc,
                 setupped, reading, closeCalled, written, last, pre, unguarded, crashed>>
  /\ fwd' = NoFwd
  /\ UNCHANGED <<streamerVars, utilVars>>

(* the stream the forwarding callback writes to: h.stream at packet time *)
ForwardTarget(s) == stream

(* lock mode in which the forwarding callback reads h.stream *)
ForwardLockMode == "none"

(* the arguments the callback passes to WritePacketRTP *)
ForwardedPacket(medi, pkt) == <<medi, pkt>>

(* the callback installed by OnRecord, run for one packet pkt that session s *)
(* received on the media medi of its announced description                   *)
OnPacketRTP(s) ==
  /\ Running
  /\ sessState[s] = "record"
  /\ ForwardLockMode = "none" \/ RLockFree
  /\ LET t == ForwardTarget(s)
     IN /\ unguarded' = IF ForwardLockMode # "none" THEN unguarded
                        ELSE unguarded \cup {"read"}
                               \cup (IF wlock \in Sessions THEN {"read during write"} ELSE {})
        /\ IF t = 0 THEN crashed' = "OnPacketRTP" /\ written' = written
           ELSE /\ crashed' = crashed
                /\ written' = IF streams[t].closed THEN written
                              ELSE written \cup {<<s, t>>}
        /\ \E medi \in 1..Len(AnnouncedBy(s)), pkt \in Packets :
             fwd' = [sess |-> s, medi |-> medi, pkt |-> pkt, seen |-> stream,
                     out |-> IF t = 0 THEN <<>> ELSE ForwardedPacket(medi, pkt),
                     result |-> IF t = 0 THEN "panic"
                                ELSE IF streams[t].closed THEN "error" ELSE "written"]
  /\ UNCHANGED <<pcMain, wlock, stream, publisher, streams, pacing, sessState, pc,
                 setupped, reading, closeCalled, last, pre>>
  /\ UNCHANGED <<streamerVars, utilVars>>

(* the session ends (client gone, or Close() was called on it): the library  *)
(* tears it down and invokes OnSessionClose in the session's goroutine,      *)
(* which takes mutex.Lock()                                                  *)
OnSessionCloseLock(s) ==
  /\ Running /\ ServerUp
  /\ pc[s] = "idle" /\ sessState[s] \notin {"none", "closed"}
  /\ wlock = NoLock
  /\ wlock' = s
  /\ pre' = Snapshot(NoDesc)
  /\ sessState' = [sessState EXCEPT ![s] = "closed"]
  /\ pc' = [pc EXCEPT ![s] = "close_locked"]
  /\ UNCHANGED <<pcMain, stream, publisher, streams, pacing,
                 setupped, reading, closeCalled, written, last, unguarded, crashed>>
  /\ fwd' = NoFwd
  /\ UNCHANGED <<streamerVars, utilVars>>

(* the closing session is never taken for the publisher *)
IsPublisherClose_Never(st, pub, s) == FALSE

(* the stream is torn down whoever closes *)
IsPublisherClose_Always(st, pub, s) == st # 0

(* OnSessionClose: is the closing session the publisher of a set stream? *)
IsPublisherClose(st, pub, s) == st # 0 /\ s = pub

(* OnSessionClose: the body and the deferred Unlock *)
OnSessionClose(s) ==
  /\ Running /\ pc[s] = "close_locked" /\ wlock = s
  /\ IF IsPublisherClose(stream, publisher, s)
     THEN /\ streams' = MarkClosed(streams, stream)
          /\ closeCalled' = closeCalled \cup ReadersOf(stream)
          /\ stream' = 0
     ELSE UNCHANGED <<streams, closeCalled, stream>>
  /\ wlock' = NoLock
  /\ pre' = NoPre
  /\ reading' = [reading EXCEPT ![s] = 0]
  /\ pc' = [pc EXCEPT ![s] = "done"]
  /\ UNCHANGED <<pcMain, publisher, pacing, sessState, setupped, written, last,
                 unguarded, crashed>>
  /\ fwd' = NoFwd
  /\ UNCHANGED <<streamerVars, utilVars>>

Next ==
  \/ MainLock
  \/ MainStartServer
  \/ MainBuildDesc
  \/ MainInitStream
  \/ MainSetStream
  \/ MainInitStreamer
  \/ MainUnlock
  \/ ServeHandler
  \/ \E s \in Sessions : DescribeReq(s)
  \/ \E s \in Sessions : OnDescribe(s)
  \/ \E s \in Sessions : OnSetupPublisher(s)
  \/ \E s \in Sessions : OnSetupReader(s)
  \/ \E s \in Sessions : OnPlay(s)
  \/ \E s \in Sessions, d \in Descriptions : OnAnnounceDisconnect(s, d)
  \/ \E s \in Sessions : OnAnnounceFind(s)
  \/ \E s \in Sessions : OnRecord(s)
  \/ \E s \in Sessions : OnPacketRTP(s)
  \/ \E s \in Sessions : OnSessionCloseLock(s)
  \/ \E s \in Sessions : OnSessionClose(s)

Spec == Init /\ [][Next]_vars

TypeOK ==
  /\ wlock \in {NoLock, MainTask} \cup Sessions
  /\ stream \in 0..Len(streams)
  /\ publisher \in 0..NumSessions
  /\ Len(streams) <= NumSessions

(* ----------------- the file streamer's task: run() --------------------- *)
(* fileStreamer.run and mjpegtsFileStreamer.run are the same loop; the       *)
(* second also sends SPS/PPS first and skips access units until the first    *)
(* IDR of every pass.  What the libraries do is fixed as follows:            *)
(*  - mpegts.Reader.Read() reads the next access unit of the H264 track and  *)
(*    calls the OnDataH264 callback with it before returning; it returns     *)
(*    io.EOF at the end of the file, the callback's error if it returns one, *)
(*    and another error when the file has been closed;                       *)
(*  - mpegts.TimeDecoder.Decode() returns 0 for the first timestamp it is    *)
(*    given and, for every later one, the previous result plus the           *)
(*    difference to the previous timestamp (the 33-bit wrap of the container *)
(*    is far from the timestamps of the files used here);                    *)
(*  - the RTP encoder makes one or more packets of an access unit, in order; *)
(*  - time.Sleep(d) returns when d has passed.                               *)
(* uint32 values are pairs <<high 16 bits, low 16 bits>>.                    *)

MaxPasses == 3          \* passes over the file the task makes
MaxSlow == 1            \* reads that are delayed by SlowStep

ClockRate == 90000
FrameInterval == 3000                 \* 90 kHz ticks between access units of the files
InitialDTS == 9000                    \* first DTS of the files
SlowStep == 50000000                  \* ns; longer than one frame interval

Half == 65536

(* uint32 arithmetic *)
Add32(x, d) == LET lo == x[2] + d IN <<(x[1] + lo \div Half) % Half, lo % Half>>
Sub32(a, b) == LET lo == a[2] - b[2]
                   borrow == IF lo < 0 THEN 1 ELSE 0
               IN <<(a[1] - b[1] - borrow) % Half, lo % Half>>

(* values randUint32() may return *)
RandomStarts == {<<0, 100>>, <<Half - 1, 65000>>}

(* an access unit of the file: raw DTS and PTS, the types of its NAL units   *)
(* and the number of packets the RTP encoder makes of it                     *)
AU(dts, pts, nals, frags) == [dts |-> dts, pts |-> pts, nals |-> nals, frags |-> frags]

PlainFile ==
  << AU(InitialDTS, InitialDTS, <<7, 8, 5>>, 2),
     AU(InitialDTS + FrameInterval, InitialDTS + FrameInterval, <<1>>, 1),
     AU(InitialDTS + 2 * FrameInterval, InitialDTS + 2 * FrameInterval, <<1>>, 1) >>

(* decode order I P B: the B picture is presented before the P picture *)
ReorderedFile ==
  << AU(InitialDTS, InitialDTS + FrameInterval, <<7, 8, 5>>, 2),
     AU(InitialDTS + FrameInterval, InitialDTS + 3 * FrameInterval, <<1>>, 1),
     AU(InitialDTS + 2 * FrameInterval, InitialDTS + 2 * FrameInterval, <<1>>, 1) >>

(* the file starts in the middle of a group of pictures *)
LateIDRFile ==
  << AU(InitialDTS, InitialDTS, <<1>>, 1),
     AU(InitialDTS + FrameInterval, InitialDTS + FrameInterval, <<7, 8, 5>>, 2),
     AU(InitialDTS + 2 * FrameInterval, InitialDTS + 2 * FrameInterval, <<1>>, 1) >>

(* key pictures coded as non-IDR I slices *)
NoIDRFile ==
  << AU(InitialDTS, InitialDTS, <<7, 8, 1>>, 2),
     AU(InitialDTS + FrameInterval, InitialDTS + FrameInterval, <<1>>, 1) >>

Files == {PlainFile, ReorderedFile, LateIDRFile, NoIDRFile}

(* the handler when StartServer calls r.Initialize(), which starts run() *)
HandlerAtRun ==
  /\ pcMain = "initialized"
  /\ wlock = MainTask
  /\ stream = 1
  /\ publisher = 0
  /\ streams = <<[desc |-> FileDesc, from |-> 0, prev |-> 0, closed |-> FALSE]>>
  /\ pacing = TRUE
  /\ sessState = [s \in Sessions |-> "none"]
  /\ pc = [s \in Sessions |-> "idle"]
  /\ setupped = {}
  /\ reading = [s \in Sessions |-> 0]
  /\ closeCalled = {}
  /\ written = {}
  /\ fwd = NoFwd
  /\ last = NoResp
  /\ pre = NoPre
  /\ unguarded = {}
  /\ crashed = ""

(* go r.run(): the task is about to run on an opened file *)
StreamerInit ==
  /\ HandlerAtRun
  /\ UtilOff
  /\ variant \in {"fileStreamer", "mjpegtsFileStreamer"}
  /\ hasParams \in BOOLEAN
  /\ f \in Files
  /\ rpc = "start"
  /\ randomStart = <<0, 0>>
  /\ lastRTPTime = <<0, 0>>
  /\ firstDTS = Nil
  /\ firstTime = 0
  /\ foundIDR = FALSE
  /\ timeDecoder = [initialized |-> FALSE, prev |-> 0, overall |-> 0]
  /\ offset = 0
  /\ passNo = 0
  /\ now = 0
  /\ slowLeft = MaxSlow
  /\ stopped = FALSE
  /\ sink = <<>>

(* a packet handed to the sink: au is the index of the access unit in the    *)
(* file (0: the initial SPS/PPS), frag the position among its packets        *)
SinkPacket(au, frag, ts, base, pts, dts, arrived, at) ==
  [pass |-> passNo, au |-> au, frag |-> frag, ts |-> ts, base |-> base,
   pts |-> pts, dts |-> dts, arrived |-> arrived, at |-> at,
   epochTime |-> IF firstDTS = Nil THEN at ELSE firstTime,
   epochDTS |-> IF firstDTS = Nil THEN dts ELSE firstDTS]

(* run() up to the loop: the encoder, randUint32(), and in                   *)
(* mjpegtsFileStreamer the SPS/PPS access unit, stamped randomStart (an      *)
(* error of that write is only logged)                                       *)
RunStart ==
  /\ rpc = "start"
  /\ \E r \in RandomStarts :
       /\ randomStart' = r
       /\ sink' = IF variant = "mjpegtsFileStreamer" /\ hasParams /\ ~stopped
                  THEN Append(sink, SinkPacket(0, 1, r, r, 0, 0, now, now))
                  ELSE sink
  /\ rpc' = "setup"
  /\ UNCHANGED <<variant, hasParams, f, lastRTPTime, firstDTS, firstTime, foundIDR,
                 timeDecoder, offset, passNo, now, slowLeft, stopped>>
  /\ UNCHANGED <<handlerVars, utilVars>>

(* the top of the outer loop: a new mpegts.Reader on r.f (Initialize and     *)
(* findTrack panic on error), a new TimeDecoder, and the variables of the    *)
(* pass declared anew                                                        *)
PassSetup ==
  /\ rpc = "setup"
  /\ passNo < MaxPasses
  /\ IF stopped
     THEN /\ rpc' = "panicked"
          /\ UNCHANGED <<timeDecoder, firstDTS, firstTime, lastRTPTime, foundIDR, passNo>>
     ELSE /\ rpc' = "read"
          /\ timeDecoder' = [initialized |-> FALSE, prev |-> 0, overall |-> 0]
          /\ firstDTS' = Nil
          /\ firstTime' = 0
          /\ lastRTPTime' = <<0, 0>>
          /\ foundIDR' = FALSE
          /\ passNo' = passNo + 1
  /\ UNCHANGED <<variant, hasParams, f, randomStart, offset, now, slowLeft, stopped, sink>>
  /\ UNCHANGED <<handlerVars, utilVars>>

(* timeDecoder.Decode(ts): the new state of the decoder and the value returned *)
Decode(td, ts) ==
  IF ~td.initialized
  THEN [td |-> [initialized |-> TRUE, prev |-> ts, overall |-> 0], val |-> 0]
  ELSE [td |-> [initialized |-> TRUE, prev |-> ts, overall |-> td.overall + (ts - td.prev)],
        val |-> td.overall + (ts - td.prev)]

(* does the access unit contain a NAL unit of type 5? *)
IsIDR(au) == \E i \in 1..Len(au.nals) : au.nals[i] = 5

(* every access unit without an IDR is skipped, in both streamers *)
Skipped_NonIDR(au) == ~IsIDR(au)

(* "Skip frames until we find the first IDR frame" (mjpegtsFileStreamer) *)
Skipped(au) == variant = "mjpegtsFileStreamer" /\ ~foundIDR /\ ~IsIDR(au)

(* time.Duration(d)*time.Second/ClockRate, in ns, for d ticks *)
TicksToDuration(d) == (d * 100000) \div (ClockRate \div 10000)

(* the task does not sleep *)
TimeDrift_None(dts, t) == 0

(* timeDrift: how long the callback sleeps at time t before the unit with *)
(* decoded DTS dts; 0 when it does not                                    *)
TimeDrift(dts, t) ==
  IF firstDTS = Nil THEN 0
  ELSE LET d == TicksToDuration(dts - firstDTS) - (t - firstTime)
       IN IF d > 0 THEN d ELSE 0

(* the timestamp is made of the DTS *)
PacketTimestamp_FromDTS(base, pts, dts) == Add32(base, dts)

(* uint32(int64(randomStart) + pts) *)
PacketTimestamp(base, pts, dts) == Add32(base, pts)

(* the packets of access unit number n, all stamped ts, in encoder order *)
EncodedPackets(n, au, ts, pts, dts, arrived, at) ==
  [k \in 1..au.frags |-> SinkPacket(n, k, ts, randomStart, pts, dts, arrived, at)]

(* mr.Read() delivers the next access unit: the OnDataH264 callback runs on  *)
(* it; a read of the closed file, or a write to the closed stream, makes     *)
(* Read return an error other than io.EOF and run() panics                   *)
ReadAccessUnit ==
  /\ rpc = "read"
  /\ offset < Len(f)
  /\ IF stopped
     THEN /\ rpc' = "panicked"
          /\ UNCHANGED <<timeDecoder, firstDTS, firstTime, lastRTPTime, foundIDR, offset,
                         now, slowLeft, sink>>
     ELSE \E slow \in {b \in BOOLEAN : b => slowLeft > 0} :
       LET n == offset + 1
           au == f[n]
           d1 == Decode(timeDecoder, au.dts)
           d2 == Decode(d1.td, au.pts)
           dts == d1.val
           pts == d2.val
           arrived == now + (IF slow THEN SlowStep ELSE 0)
           at == arrived + TimeDrift(dts, arrived)
           ts == PacketTimestamp(randomStart, pts, dts)
       IN /\ rpc' = "read"
          /\ offset' = n
          /\ timeDecoder' = d2.td
          /\ slowLeft' = IF slow THEN slowLeft - 1 ELSE slowLeft
          /\ IF Skipped(au)
             THEN /\ now' = arrived
                  /\ UNCHANGED <<firstDTS, firstTime, lastRTPTime, foundIDR, sink>>
             ELSE /\ foundIDR' = (variant = "mjpegtsFileStreamer")
                  /\ firstDTS' = IF firstDTS = Nil THEN dts ELSE firstDTS
                  /\ firstTime' = IF firstDTS = Nil THEN arrived ELSE firstTime
                  /\ now' = at
                  /\ lastRTPTime' = ts
                  /\ sink' = sink \o EncodedPackets(n, au, ts, pts, dts, arrived, at)
  /\ UNCHANGED <<variant, hasParams, f, randomStart, passNo, stopped>>
  /\ UNCHANGED <<handlerVars, utilVars>>

(* the base is left as it was *)
NextBase_Unchanged(last32) == randomStart

(* "keep current timestamp": randomStart = lastRTPTime + 1 *)
NextBase(last32) == Add32(last32, 1)

(* end-of-file ends the task *)
AfterEOF_Fatal == "panicked"

(* where run() continues after io.EOF: break, to the top of the outer loop *)
AfterEOF == "setup"

(* mr.Read() returns io.EOF: r.f.Seek(0, io.SeekStart), the new base, break; *)
(* a read of the closed file returns another error and run() panics          *)
ReadEOF ==
  /\ rpc = "read"
  /\ offset = Len(f)
  /\ IF stopped
     THEN rpc' = "panicked" /\ UNCHANGED <<randomStart, foundIDR, offset>>
     ELSE /\ rpc' = AfterEOF
          /\ offset' = 0
          /\ randomStart' = NextBase(lastRTPTime)
          /\ foundIDR' = FALSE
  /\ UNCHANGED <<variant, hasParams, f, lastRTPTime, firstDTS, firstTime, timeDecoder,
                 passNo, now, slowLeft, stopped, sink>>
  /\ UNCHANGED <<handlerVars, utilVars>>

(* rtspServer.Wait() returns and StartServer's deferred r.Close() and        *)
(* stream.Close() run while the task is running                              *)
ServerStops ==
  /\ rpc \in {"setup", "read"}
  /\ ~stopped
  /\ stopped' = TRUE
  /\ UNCHANGED <<variant, hasParams, f, rpc, randomStart, lastRTPTime, firstDTS, firstTime,
                 foundIDR, timeDecoder, offset, passNo, now, slowLeft, sink>>
  /\ UNCHANGED <<handlerVars, utilVars>>

StreamerNext ==
  \/ RunStart
  \/ PassSetup
  \/ ReadAccessUnit
  \/ ReadEOF
  \/ ServerStops

StreamerSpec == StreamerInit /\ [][StreamerNext]_vars

(* the Go scheduler runs the task whenever it can take a step *)
StreamerFairSpec ==
  StreamerSpec /\ WF_vars(RunStart \/ PassSetup \/ ReadAccessUnit \/ ReadEOF)

(* ------------------- extraction of the SPS and PPS --------------------- *)
(* Bytes are the numbers 0..255; a buffer is a sequence of bytes, indexed    *)
(* from 0 as in the code through Byte and Slice.                             *)
(*                                                                         *)
(* What the tools outside the repository do is fixed as follows:             *)
(*  - ffprobe fails, prints no extradata, or prints extradata as hex;        *)
(*  - ffmpeg fails or writes the video track in Annex-B form;                *)
(*  - h264.AnnexB.Unmarshal of a buffer in Annex-B form returns its NAL      *)
(*    units in order.                                                        *)

MaxNalus == 3           \* NAL units per buffer

SPS1 == <<103, 66, 192, 30>>
SPS2 == <<103, 100, 0, 31>>
PPS1 == <<104, 206, 60, 128>>
IDR1 == <<101, 136>>
NalMenu == {SPS1, SPS2, PPS1, IDR1}

(* a NAL unit behind a start code of 3 or 4 bytes *)
StartCode(n) == IF n = 4 THEN <<0, 0, 0, 1>> ELSE <<0, 0, 1>>
Coded == [code : {3, 4}, nal : NalMenu]

RECURSIVE AnnexB(_)
AnnexB(ns) ==
  IF ns = <<>> THEN <<>>
  ELSE StartCode(Head(ns).code) \o Head(ns).nal \o AnnexB(Tail(ns))

NalusUpTo(n) == UNION {[1..k -> Coded] : k \in 1..n}

(* what ffprobe printed for a container file, hex-decoded: AVCC extradata   *)
(* (no start code), or parameter sets in Annex-B form                       *)
Extradata == {<<1, 66, 192, 30, 255, 225>>,
              AnnexB(<<[code |-> 4, nal |-> SPS1], [code |-> 4, nal |-> PPS1]>>),
              AnnexB(<<[code |-> 4, nal |-> SPS1]>>)}

Byte(buf, i) == buf[i + 1]
Slice(buf, lo, hi) == SubSeq(buf, lo + 1, hi)
NalType(b) == b % 32

StartCode4At(buf, i) ==
  Byte(buf, i) = 0 /\ Byte(buf, i + 1) = 0 /\ Byte(buf, i + 2) = 0 /\ Byte(buf, i + 3) = 1
StartCode3At(buf, i) ==
  Byte(buf, i) = 0 /\ Byte(buf, i + 1) = 0 /\ Byte(buf, i + 2) = 1

(* parseH264Parameters: the search for the end of the NAL unit *)
RECURSIVE ParseEnd(_, _)
ParseEnd(buf, end) ==
  IF ~(end < Len(buf)) THEN end
  ELSE IF end + 3 < Len(buf) /\ StartCode3At(buf, end) THEN end
  ELSE IF end + 4 < Len(buf) /\ StartCode4At(buf, end) THEN end
  ELSE ParseEnd(buf, end + 1)

(* params.SPS = nalData: a later NAL unit of the type replaces an earlier *)
Assign(old, nalData) == nalData

(* parseH264Parameters: the loop over the buffer from index i on *)
RECURSIVE ParseFrom(_, _, _)
ParseFrom(buf, i, params) ==
  IF ~(i < Len(buf)) THEN params
  ELSE LET j == IF i + 4 < Len(buf) /\ StartCode4At(buf, i) THEN i + 4
                ELSE IF i + 3 < Len(buf) /\ StartCode3At(buf, i) THEN i + 3
                ELSE -1
       IN IF j = -1 THEN ParseFrom(buf, i + 1, params)
          ELSE IF j >= Len(buf) THEN params
          ELSE LET end == ParseEnd(buf, j + 1)
                   nalData == Slice(buf, j, end)
                   nalType == NalType(Byte(buf, j))
               IN ParseFrom(buf, end,
                    [params EXCEPT !.SPS = IF nalType = 7 THEN Assign(@, nalData) ELSE @,
                                   !.PPS = IF nalType = 8 THEN Assign(@, nalData) ELSE @])

ParseResult_NoPPSCheck(p) ==
  IF Len(p.SPS) = 0 THEN [NoParams EXCEPT !.err = "SPS not found"]
  ELSE [p EXCEPT !.err = ""]

(* parseH264Parameters: both must have been found *)
ParseResult(p) ==
  IF Len(p.SPS) = 0 THEN [NoParams EXCEPT !.err = "SPS not found"]
  ELSE IF Len(p.PPS) = 0 THEN [NoParams EXCEPT !.err = "PPS not found"]
  ELSE [p EXCEPT !.err = ""]

parseH264Parameters(buf) == ParseResult(ParseFrom(buf, 0, NoParams))

(* tryParseH264Parameters: the end of a NAL unit behind a 4-byte start code *)
RECURSIVE TryEnd4(_, _)
TryEnd4(buf, nalEnd) ==
  IF nalEnd < Len(buf) - 3
     /\ ~(/\ Byte(buf, nalEnd) = 0
          /\ Byte(buf, nalEnd + 1) = 0
          /\ \/ Byte(buf, nalEnd + 2) = 1
             \/ (Byte(buf, nalEnd + 2) = 0 /\ nalEnd + 3 < Len(buf)
                 /\ Byte(buf, nalEnd + 3) = 1))
  THEN TryEnd4(buf, nalEnd + 1)
  ELSE nalEnd

(* tryParseH264Parameters: the end of a NAL unit behind a 3-byte start code *)
RECURSIVE TryEnd3(_, _)
TryEnd3(buf, nalEnd) ==
  IF nalEnd < Len(buf) - 2
     /\ ~(/\ Byte(buf, nalEnd) = 0
          /\ Byte(buf, nalEnd + 1) = 0
          /\ nalEnd + 2 < Len(buf) /\ Byte(buf, nalEnd + 2) = 1)
  THEN TryEnd3(buf, nalEnd + 1)
  ELSE nalEnd

(* tryParseH264Parameters: params.SPS == nil && len(nalData) > 3 *)
Take(old, nalData) == IF old = <<>> /\ Len(nalData) > 3 THEN nalData ELSE old

TakeNal(params, nalType, nalData) ==
  [params EXCEPT !.SPS = IF nalType = 7 THEN Take(@, nalData) ELSE @,
                 !.PPS = IF nalType = 8 THEN Take(@, nalData) ELSE @]

BothFound(params) == params.SPS # <<>> /\ params.PPS # <<>>

(* tryParseH264Parameters: the loop over the buffer from index i on *)
RECURSIVE TryFrom(_, _, _)
TryFrom(buf, i, params) ==
  IF ~(i < Len(buf) - 4) THEN params
  ELSE LET is4 == StartCode4At(buf, i)
           p4 == IF is4
                 THEN TakeNal(params, NalType(Byte(buf, i + 4)),
                              Slice(buf, i + 4, TryEnd4(buf, i + 5)))
                 ELSE params
           is3 == StartCode3At(buf, i)
           p3 == IF is3
                 THEN TakeNal(p4, NalType(Byte(buf, i + 3)),
                              Slice(buf, i + 3, TryEnd3(buf, i + 4)))
                 ELSE p4
       IN IF is4 /\ BothFound(p4) THEN p4
          ELSE IF is3 /\ BothFound(p3) THEN p3
          ELSE TryFrom(buf, i + 1, p3)

(* tryParseH264Parameters: nil when neither was found *)
tryParseH264Parameters(buf) ==
  LET p == TryFrom(buf, 0, NoParams)
  IN IF p.SPS # <<>> \/ p.PPS # <<>> THEN p ELSE [NoParams EXCEPT !.err = "nil"]

(* the NAL units of a type among the units of a buffer, in order *)
OfType(ns, t) == SelectSeq(ns, LAMBDA c : NalType(c.nal[1]) = t)

(* ExtractH264ParametersFromStream on a file in Annex-B form that one chunk  *)
(* holds: the first SPS and the first PPS AnnexB.Unmarshal returns           *)
ExtractH264ParametersFromStream(ns) ==
  IF OfType(ns, 7) = <<>> THEN [NoParams EXCEPT !.err = "SPS not found in stream"]
  ELSE IF OfType(ns, 8) = <<>> THEN [NoParams EXCEPT !.err = "PPS not found in stream"]
  ELSE [SPS |-> OfType(ns, 7)[1].nal, PPS |-> OfType(ns, 8)[1].nal, err |-> ""]

(* ExtractH264ParametersFromHex *)
ExtractH264ParametersFromHex(isContainer, probed, extradata) ==
  IF ~isContainer THEN [NoParams EXCEPT !.err = "extradata not available"]
  ELSE IF probed = "fail" THEN [NoParams EXCEPT !.err = "failed to probe video file"]
  ELSE IF probed = "none" THEN [NoParams EXCEPT !.err = "no H.264 extradata found"]
  ELSE parseH264Parameters(extradata)

(* ExtractH264Parameters: ffmpeg's output, scanned *)
ExtractH264Parameters(ran, output) ==
  IF ran = "fail" THEN [NoParams EXCEPT !.err = "failed to extract H.264 parameters"]
  ELSE parseH264Parameters(output)

(* a buffer in Annex-B form is at hand; for StartServer, a file whose video  *)
(* track is that buffer, and what the two tools do with the file            *)
ExtractInit ==
  /\ HandlerStart
  /\ StreamerOff
  /\ FromStreamOff
  /\ FromPipeOff
  /\ MjpegOff
  /\ FileStreamerOff
  /\ nalus \in NalusUpTo(MaxNalus)
  /\ data = AnnexB(nalus)
  /\ scanned = [by |-> "none", SPS |-> <<>>, PPS |-> <<>>, err |-> ""]
  /\ container \in BOOLEAN
  /\ probe \in {[out |-> "fail", hex |-> <<>>], [out |-> "none", hex |-> <<>>]}
                \cup {[out |-> "hex", hex |-> x] : x \in Extradata}
  /\ ffmpeg \in {"fail", "ok"}
  /\ pcExtract = "start"
  /\ tried = <<>>
  /\ h264Format = NoParams

ScanBy(name, result) ==
  /\ pcExtract = "start"
  /\ scanned.by = "none"
  /\ scanned' = [by |-> name, SPS |-> result.SPS, PPS |-> result.PPS, err |-> result.err]
  /\ UNCHANGED <<data, nalus, container, probe, ffmpeg, pcExtract, tried, h264Format>>
  /\ UNCHANGED extractRest

ParseH264Parameters == ScanBy("parseH264Parameters", parseH264Parameters(data))

TryParseH264Parameters == ScanBy("tryParseH264Parameters", tryParseH264Parameters(data))

(* StartServer, from the extraction to the H264 format of the description *)
ExtractParameters ==
  /\ pcExtract = "start"
  /\ scanned.by = "none"
  /\ LET hex == ExtractH264ParametersFromHex(container, probe.out, probe.hex)
         alt == ExtractH264Parameters(ffmpeg, data)
     IN IF hex.err = ""
        THEN /\ tried' = <<"ExtractH264ParametersFromHex">>
             /\ h264Format' = hex
        ELSE /\ tried' = <<"ExtractH264ParametersFromHex", "ExtractH264Parameters">>
             /\ h264Format' = IF alt.err = "" THEN alt ELSE NoParams
  /\ pcExtract' = "done"
  /\ UNCHANGED <<data, nalus, scanned, container, probe, ffmpeg>>
  /\ UNCHANGED extractRest

ScanStream ==
  ScanBy("ExtractH264ParametersFromStream", ExtractH264ParametersFromStream(nalus))

ExtractNext ==
  \/ ParseH264Parameters
  \/ TryParseH264Parameters
  \/ ScanStream
  \/ ExtractParameters

ExtractSpec == ExtractInit /\ [][ExtractNext]_vars

(* ---------------- ExtractH264ParametersFromStream: the loop ------------ *)
(* reader.Read(buffer) returns between 0 and len(buffer) bytes, with no     *)
(* error, with io.EOF or with another error; AnnexB.Unmarshal of the chunk  *)
(* fails or returns NAL units, among which an SPS, a PPS, both or neither.  *)

FromStreamInit ==
  /\ HandlerStart
  /\ StreamerOff
  /\ ExtractOff
  /\ FromPipeOff
  /\ MjpegOff
  /\ FileStreamerOff
  /\ spc = "loop"
  /\ bytesRead = 0
  /\ consumed = 0
  /\ found = {}
  /\ returned = NoReturn

StreamResult_NoPPSCheck(got) ==
  IF 7 \notin got THEN [ret |-> "error", SPS |-> FALSE, PPS |-> FALSE]
  ELSE [ret |-> "params", SPS |-> 7 \in got, PPS |-> 8 \in got]

(* behind the loop: an error unless both were found *)
StreamResult(got) ==
  IF 7 \notin got THEN [ret |-> "error", SPS |-> FALSE, PPS |-> FALSE]
  ELSE IF 8 \notin got THEN [ret |-> "error", SPS |-> FALSE, PPS |-> FALSE]
  ELSE [ret |-> "params", SPS |-> TRUE, PPS |-> TRUE]

(* one turn of the loop, with what follows the loop when the turn leaves it *)
StreamRead ==
  /\ spc = "loop"
  /\ bytesRead < MaxBytes
  /\ \E n \in ReadSizes, err \in ReadErrors, content \in ChunkContents :
       /\ consumed' = consumed + n
       /\ IF err = "other"
          THEN /\ returned' = [ret |-> "error", SPS |-> FALSE, PPS |-> FALSE]
               /\ spc' = "returned"
               /\ UNCHANGED <<bytesRead, found>>
          ELSE IF n = 0
          THEN /\ returned' = StreamResult(found)
               /\ spc' = "returned"
               /\ UNCHANGED <<bytesRead, found>>
          ELSE IF ~content.valid
          THEN /\ bytesRead' = bytesRead + n
               /\ UNCHANGED <<spc, found, returned>>
          ELSE /\ found' = found \cup content.types
               /\ IF found' = {7, 8}
                  THEN /\ returned' = [ret |-> "params", SPS |-> TRUE, PPS |-> TRUE]
                       /\ spc' = "returned"
                       /\ UNCHANGED bytesRead
                  ELSE /\ bytesRead' = bytesRead + n
                       /\ IF err = "EOF"
                          THEN /\ returned' = StreamResult(found')
                               /\ spc' = "returned"
                          ELSE UNCHANGED <<spc, returned>>
  /\ UNCHANGED fromStreamRest

(* the loop condition fails: bytesRead has reached maxBytes *)
StreamCapReached ==
  /\ spc = "loop"
  /\ ~(bytesRead < MaxBytes)
  /\ returned' = StreamResult(found)
  /\ spc' = "returned"
  /\ UNCHANGED <<bytesRead, consumed, found>>
  /\ UNCHANGED fromStreamRest

FromStreamNext ==
  \/ StreamRead
  \/ StreamCapReached

FromStreamSpec == FromStreamInit /\ [][FromStreamNext]_vars

(* the function runs on: the caller waits for it *)
FromStreamFairSpec == FromStreamSpec /\ WF_vars(FromStreamNext)

(* ------------------- ExtractH264ParametersFromPipe --------------------- *)
(* The caller and the reader goroutine it starts.  What lies outside the   *)
(* repository is fixed as follows:                                          *)
(*  - os.OpenFile of a FIFO blocks until a writer opens it, and may fail;   *)
(*  - with the read deadline set, reader.Read returns data, io.EOF (all     *)
(*    writers gone), another error, or a timeout error once the deadline    *)
(*    has passed;                                                           *)
(*  - a send on a channel blocks while the channel's buffer is full;        *)
(*  - a select whose case is ready proceeds at once: time does not pass     *)
(*    the deadline of the context while the caller waits in its select.     *)

FromPipeInit ==
  /\ HandlerStart
  /\ StreamerOff
  /\ ExtractOff
  /\ FromStreamOff
  /\ MjpegOff
  /\ FileStreamerOff
  /\ cpc = "start"
  /\ gpc = "off"
  /\ \E c \in Calls : timeout = c[1] /\ pipe = c[2]
  /\ elapsed = 0
  /\ canceled = FALSE
  /\ waitLeft = 0
  /\ noDataCount = 0
  /\ accumulated = 0
  /\ pipeFound = {}
  /\ doneChan = <<>>
  /\ errChan = <<>>
  /\ outcome = NoOutcome

(* <-ctx.Done() is ready *)
CtxDone == canceled \/ elapsed >= timeout

goroutineVars == <<gpc, waitLeft, noDataCount, accumulated, pipeFound, doneChan, errChan>>

(* os.Stat: the pipe does not exist, the function returns at once *)
PipeMissing ==
  /\ cpc = "start"
  /\ cpc' = "returned"
  /\ outcome' = [ret |-> "error", got |-> {}, at |-> elapsed]
  /\ UNCHANGED <<timeout, pipe, elapsed, canceled, goroutineVars>>
  /\ UNCHANGED fromPipeRest

(* the context and the channels are made, the goroutine is started *)
StartReader ==
  /\ cpc = "start"
  /\ cpc' = "select"
  /\ gpc' = "open"
  /\ UNCHANGED <<timeout, pipe, elapsed, canceled, waitLeft, noDataCount, accumulated,
                 pipeFound, doneChan, errChan, outcome>>
  /\ UNCHANGED fromPipeRest

(* the case of the select can proceed *)
CaseReady(c) ==
  IF c = "done" THEN doneChan # <<>>
  ELSE IF c = "errChan" THEN errChan # <<>>
  ELSE CtxDone

SelectCases_NoTimeout == {"done", "errChan"}

(* the cases of the caller's select *)
SelectCases == {"done", "errChan", "ctx"}

(* the select proceeds with one ready case; the deferred cancel() runs *)
CallerReturns ==
  /\ cpc = "select"
  /\ \E c \in SelectCases :
       /\ CaseReady(c)
       /\ outcome' = IF c = "done" THEN [ret |-> "params", got |-> Head(doneChan), at |-> elapsed]
                     ELSE [ret |-> "error", got |-> {}, at |-> elapsed]
       /\ doneChan' = IF c = "done" THEN Tail(doneChan) ELSE doneChan
       /\ errChan' = IF c = "errChan" THEN Tail(errChan) ELSE errChan
  /\ cpc' = "returned"
  /\ canceled' = TRUE
  /\ UNCHANGED <<timeout, pipe, elapsed, gpc, waitLeft, noDataCount, accumulated, pipeFound>>
  /\ UNCHANGED fromPipeRest

(* os.OpenFile returns: with the file, or with an error to deliver *)
OpenReturns ==
  /\ gpc = "open"
  /\ gpc' \in {"top"} \cup {"sendErr" : x \in {pipe} \cap {"any"}}
  /\ UNCHANGED <<cpc, timeout, pipe, elapsed, canceled, waitLeft, noDataCount, accumulated,
                 pipeFound, doneChan, errChan, outcome>>
  /\ UNCHANGED fromPipeRest

(* the top of the loop: the context is checked, the deadline is set and     *)
(* the read begins                                                          *)
LoopTop ==
  /\ gpc = "top"
  /\ IF CtxDone
     THEN gpc' = "sendErr" /\ UNCHANGED waitLeft
     ELSE gpc' = "read" /\ waitLeft' = ReadDeadline
  /\ UNCHANGED <<cpc, timeout, pipe, elapsed, canceled, noDataCount, accumulated,
                 pipeFound, doneChan, errChan, outcome>>
  /\ UNCHANGED fromPipeRest

(* noDataCount++ and the test against maxNoDataCount; next is where the     *)
(* loop goes on when the count is not exceeded                              *)
NoData(next) ==
  /\ noDataCount' = noDataCount + 1
  /\ gpc' = IF noDataCount + 1 > MaxNoDataCount THEN "sendErr" ELSE next

(* the read times out *)
ReadTimesOut ==
  /\ gpc = "read"
  /\ pipe \in {"silent", "any"}
  /\ waitLeft = 0
  /\ NoData("top")
  /\ UNCHANGED <<cpc, timeout, pipe, elapsed, canceled, waitLeft, accumulated,
                 pipeFound, doneChan, errChan, outcome>>
  /\ UNCHANGED fromPipeRest

(* the read fails with an error that is neither a timeout nor io.EOF *)
ReadFails ==
  /\ gpc = "read"
  /\ pipe = "any"
  /\ gpc' = "sendErr"
  /\ waitLeft' = 0
  /\ UNCHANGED <<cpc, timeout, pipe, elapsed, canceled, noDataCount, accumulated,
                 pipeFound, doneChan, errChan, outcome>>
  /\ UNCHANGED fromPipeRest

(* the read returns no byte (io.EOF or not): count, then sleep *)
ReadsNothing ==
  /\ gpc = "read"
  /\ pipe \in {"closed", "any"}
  /\ NoData("sleep")
  /\ waitLeft' = IF gpc' = "sleep" THEN SleepTime ELSE 0
  /\ UNCHANGED <<cpc, timeout, pipe, elapsed, canceled, accumulated,
                 pipeFound, doneChan, errChan, outcome>>
  /\ UNCHANGED fromPipeRest

(* time.Sleep returns *)
WakeUp ==
  /\ gpc = "sleep"
  /\ waitLeft = 0
  /\ gpc' = "top"
  /\ UNCHANGED <<cpc, timeout, pipe, elapsed, canceled, waitLeft, noDataCount, accumulated,
                 pipeFound, doneChan, errChan, outcome>>
  /\ UNCHANGED fromPipeRest

(* the read returns n bytes: they are appended; from 1024 bytes on the      *)
(* buffer is scanned (as Annex-B, then as transport stream), which may find *)
(* parameter sets not yet held; with both the goroutine delivers them,      *)
(* otherwise the buffer is cut back to its last 16384 bytes above 32768     *)
ReadsData ==
  /\ gpc = "read"
  /\ pipe = "any"
  /\ noDataCount' = 0
  /\ waitLeft' = 0
  /\ \E n \in PipeReadSizes, types \in SUBSET {7, 8} :
       LET acc == accumulated + n
           got == IF acc >= ParseAt THEN pipeFound \cup types ELSE pipeFound
       IN /\ pipeFound' = got
          /\ IF acc >= ParseAt /\ got = {7, 8}
             THEN gpc' = "sendDone" /\ accumulated' = acc
             ELSE /\ gpc' = "top"
                  /\ accumulated' = IF acc >= ParseAt /\ acc > TrimAbove THEN TrimTo ELSE acc
  /\ UNCHANGED <<cpc, timeout, pipe, elapsed, canceled, doneChan, errChan, outcome>>
  /\ UNCHANGED fromPipeRest

(* doneChan <- params; return *)
SendDone ==
  /\ gpc = "sendDone"
  /\ Len(doneChan) < ChanCap
  /\ doneChan' = Append(doneChan, pipeFound)
  /\ gpc' = "ended"
  /\ UNCHANGED <<cpc, timeout, pipe, elapsed, canceled, waitLeft, noDataCount, accumulated,
                 pipeFound, errChan, outcome>>
  /\ UNCHANGED fromPipeRest

(* errChan <- fmt.Errorf(...); return *)
SendErr ==
  /\ gpc = "sendErr"
  /\ Len(errChan) < ChanCap
  /\ errChan' = Append(errChan, "error")
  /\ gpc' = "ended"
  /\ UNCHANGED <<cpc, timeout, pipe, elapsed, canceled, waitLeft, noDataCount, accumulated,
                 pipeFound, doneChan, outcome>>
  /\ UNCHANGED fromPipeRest

(* 100 ms pass; the time since the call is counted until the caller has   *)
(* returned                                                                *)
Tick ==
  /\ cpc \in {"select", "returned"}
  /\ cpc = "select" => elapsed < timeout
  /\ cpc = "returned" => waitLeft > 0
  /\ elapsed' = IF cpc = "select" THEN elapsed + 1 ELSE elapsed
  /\ waitLeft' = IF waitLeft > 0 THEN waitLeft - 1 ELSE 0
  /\ UNCHANGED <<cpc, timeout, pipe, canceled, gpc, noDataCount, accumulated, pipeFound,
                 doneChan, errChan, outcome>>
  /\ UNCHANGED fromPipeRest

FromPipeNext ==
  \/ PipeMissing
  \/ StartReader
  \/ CallerReturns
  \/ OpenReturns
  \/ LoopTop
  \/ ReadTimesOut
  \/ ReadFails
  \/ ReadsNothing
  \/ WakeUp
  \/ ReadsData
  \/ SendDone
  \/ SendErr
  \/ Tick

FromPipeSpec == FromPipeInit /\ [][FromPipeNext]_vars

(* the caller runs when it can, and time passes *)
FromPipeFairSpec ==
  FromPipeSpec /\ WF_vars(PipeMissing \/ StartReader \/ CallerReturns) /\ WF_vars(Tick)

(* ------------------ the raw-pipe streamer: mjpegStreamer --------------- *)
(* run() of mjpegStreamer reads the pipe in chunks, collects them in        *)
(* buffer, cuts the pictures out of it and hands each to the sink.          *)
(* The two large sizes of the code are scaled down: the read buffer of      *)
(* 4096 bytes to FrameBufferSize and the buffer limit of 2 MiB to           *)
(* BufferCap; the two sizes of 10 bytes are those of the code.              *)
(*                                                                         *)
(* What lies outside the repository is fixed as follows:                    *)
(*  - r.f.Read returns between 1 and len(frameBuffer) bytes of the pipe,    *)
(*    or nothing (io.EOF, or no byte), or fails; on a closed file, and on   *)
(*    the nil r.f that Close() leaves, it fails;                            *)
(*  - the encoder makes packets of every access unit;                       *)
(*  - a write to a closed stream returns an error.                          *)

FrameBufferSize == 4    \* len(frameBuffer), scaled
BufferCap == 16         \* the buffer limit, scaled
TailKeep == 10
MinFrame == 10
TicksPerFrame == 3000
MaxFailed == 2          \* failed reads are counted modulo MaxFailed + 1

FF == 255
D8 == 216
D9 == 217

(* k bytes v *)
Fill(k, v) == [i \in 1..k |-> v]

(* a picture of k bytes: start marker, filler v, end marker *)
Picture(k, v) == <<FF, D8>> \o Fill(k - 4, v) \o <<FF, D9>>

(* the bytes the pipe delivers: head, then loop over and over; with an      *)
(* empty loop the pipe has nothing more behind head                         *)
Endless(head, loop) == [head |-> head, loop |-> loop]

NoMarkerStream == Endless(<<>>, <<0, FF, 0, D9, D8, 0, 0>>)
OpenPictureStream == Endless(<<0, FF, D8>>, <<1, 1, D9, FF, 1>>)
RestartingStream == Endless(<<>>, <<FF, D8, 2, 2, 2>>)
TwoPictureStream == Endless(<<0, D9, FF>> \o Picture(10, 1) \o <<0>> \o Picture(12, 2), <<>>)
AdjacentStream == Endless(Picture(11, 1) \o Picture(10, 2) \o <<FF>>, <<>>)
SmallPictureStream == Endless(Picture(10, 1) \o Picture(6, 2) \o Picture(10, 3), <<>>)
LargePictureStream ==
  Endless(Picture(10, 1) \o Picture(BufferCap + FrameBufferSize, 2) \o Picture(10, 3), <<>>)

PipeStreams == {NoMarkerStream, OpenPictureStream, RestartingStream, TwoPictureStream,
                AdjacentStream, SmallPictureStream, LargePictureStream}

(* go r.run(): the task is about to run on the opened pipe *)
MjpegInit ==
  /\ HandlerAtRun
  /\ ExtractOff
  /\ FromStreamOff
  /\ FromPipeOff
  /\ FileStreamerOff
  /\ variant = "mjpegStreamer"
  /\ hasParams \in BOOLEAN
  /\ f = <<>>
  /\ rpc = "start"
  /\ randomStart = <<0, 0>>
  /\ lastRTPTime = <<0, 0>>
  /\ firstDTS = Nil
  /\ firstTime = 0
  /\ foundIDR = FALSE
  /\ timeDecoder = [initialized |-> FALSE, prev |-> 0, overall |-> 0]
  /\ offset = 0
  /\ passNo = 0
  /\ now = 0
  /\ slowLeft = 0
  /\ stopped = FALSE
  /\ sink = <<>>
  /\ pipeStream \in PipeStreams
  /\ pipePos = 0
  /\ buffer = <<>>
  /\ peakLen = 0
  /\ frameCount = 0
  /\ failedReads = 0
  /\ idle = FALSE
  /\ sinkClosed = FALSE

mjpegRest == <<handlerVars, extractVars, fromStreamVars, fromPipeVars, newVars, variant, hasParams, f,
               firstDTS, firstTime, foundIDR, timeDecoder, offset, passNo, now, slowLeft>>

(* an access unit handed to the sink: n is 0 for the SPS/PPS unit and the   *)
(* frame count for a picture; ok is the result of the write                 *)
PipePacket(n, frame, ts) == [au |-> n, frame |-> frame, ts |-> ts, ok |-> ~sinkClosed]

(* run() up to the loop: the encoder, randUint32MJPEG(), and the SPS/PPS    *)
(* access unit, stamped randomStart                                         *)
MjpegRunStart ==
  /\ variant = "mjpegStreamer"
  /\ rpc = "start"
  /\ \E r \in RandomStarts :
       /\ randomStart' = r
       /\ sink' = IF hasParams THEN Append(sink, PipePacket(0, <<>>, r)) ELSE sink
  /\ rpc' = "read"
  /\ UNCHANGED <<lastRTPTime, stopped, pipeStream, pipePos, buffer, peakLen, frameCount,
                 failedReads, idle, sinkClosed>>
  /\ UNCHANGED mjpegRest

(* the byte at position p of the pipe, counted from 0 *)
PipeByte(s, p) ==
  IF p < Len(s.head) THEN s.head[p + 1]
  ELSE s.loop[((p - Len(s.head)) % Len(s.loop)) + 1]

(* bytes the pipe still holds from position p: none behind a head without   *)
(* loop                                                                     *)
Available(s, p) == IF s.loop = <<>> THEN Len(s.head) - p ELSE FrameBufferSize

(* positions behind the head are counted within the loop *)
Advance(s, p, n) ==
  IF s.loop = <<>> \/ p + n < Len(s.head) THEN p + n
  ELSE Len(s.head) + ((p + n - Len(s.head)) % Len(s.loop))

(* findJPEGStart *)
findJPEGStart(buf) ==
  LET at == {i \in 0..(Len(buf) - 2) : Byte(buf, i) = FF /\ Byte(buf, i + 1) = D8}
  IN IF at = {} THEN -1 ELSE CHOOSE i \in at : \A j \in at : i <= j

(* findJPEGEnd *)
findJPEGEnd(buf, start) ==
  LET at == {i \in start..(Len(buf) - 2) : Byte(buf, i) = FF /\ Byte(buf, i + 1) = D9}
  IN IF at = {} THEN -1 ELSE (CHOOSE i \in at : \A j \in at : i <= j) + 2

(* the test of the frame's size *)
Valid(jpegFrame) == ~(Len(jpegFrame) < MinFrame)

(* the loop over the complete pictures of the buffer: what is left of the   *)
(* buffer, and the frames that passed the test, in order                    *)
RECURSIVE ProcessFrames(_, _)
ProcessFrames(buf, frames) ==
  LET jpegStart == findJPEGStart(buf)
  IN IF jpegStart = -1
     THEN [buffer |-> IF Len(buf) > TailKeep THEN Slice(buf, Len(buf) - TailKeep, Len(buf))
                      ELSE buf,
           frames |-> frames]
     ELSE LET trimmed == IF jpegStart > 0 THEN Slice(buf, jpegStart, Len(buf)) ELSE buf
              jpegEnd == findJPEGEnd(trimmed, 2)
          IN IF jpegEnd = -1
             THEN [buffer |-> trimmed, frames |-> frames]
             ELSE LET jpegFrame == Slice(trimmed, 0, jpegEnd)
                      rest == Slice(trimmed, jpegEnd, Len(trimmed))
                  IN IF Valid(jpegFrame)
                     THEN ProcessFrames(rest, Append(frames, jpegFrame))
                     ELSE ProcessFrames(rest, frames)

Capped_Never(buf) == buf

(* the limit on the buffer: above it the last half is kept *)
Capped(buf) ==
  IF Len(buf) > BufferCap THEN Slice(buf, Len(buf) \div 2, Len(buf)) ELSE buf

FrameTimestamp_Fixed(base, count) == Add32(base, TicksPerFrame)

(* uint32(int64(randomStart) + int64(frameCount * 3000)) *)
FrameTimestamp(base, count) == Add32(base, count * TicksPerFrame)

(* the frames as access units, counted on from frameCount *)
RECURSIVE Emit(_, _)
Emit(frames, count) ==
  IF frames = <<>> THEN <<>>
  ELSE <<PipePacket(count + 1, Head(frames), FrameTimestamp(randomStart, count + 1))>>
         \o Emit(Tail(frames), count + 1)

(* one turn of the loop in which the read returns n bytes *)
MjpegRead ==
  /\ variant = "mjpegStreamer"
  /\ rpc = "read"
  /\ ~stopped
  /\ \E n \in 1..FrameBufferSize :
       /\ n <= Available(pipeStream, pipePos)
       /\ LET chunk == [i \in 1..n |-> PipeByte(pipeStream, pipePos + i - 1)]
              appended == buffer \o chunk
              done == ProcessFrames(appended, <<>>)
              count == frameCount + Len(done.frames)
          IN /\ pipePos' = Advance(pipeStream, pipePos, n)
             /\ peakLen' = Len(appended)
             /\ buffer' = Capped(done.buffer)
             /\ frameCount' = count
             /\ lastRTPTime' = IF done.frames = <<>> THEN lastRTPTime
                               ELSE FrameTimestamp(randomStart, count)
             /\ sink' = sink \o Emit(done.frames, frameCount)
  /\ idle' = FALSE
  /\ UNCHANGED <<rpc, randomStart, stopped, pipeStream, failedReads, sinkClosed>>
  /\ UNCHANGED mjpegRest

(* one turn of the loop in which the read returns io.EOF or no byte: the    *)
(* task sleeps and reads again                                              *)
MjpegReadNothing ==
  /\ variant = "mjpegStreamer"
  /\ rpc = "read"
  /\ ~stopped
  /\ Available(pipeStream, pipePos) = 0
  /\ idle' = TRUE
  /\ UNCHANGED <<rpc, randomStart, lastRTPTime, stopped, sink, pipeStream, pipePos, buffer,
                 peakLen, frameCount, failedReads, sinkClosed>>
  /\ UNCHANGED mjpegRest

(* one turn of the loop in which the read fails (the file is closed, or    *)
(* the read of the open pipe fails): the error is logged and the loop goes *)
(* on                                                                      *)
MjpegReadFails ==
  /\ variant = "mjpegStreamer"
  /\ rpc = "read"
  /\ failedReads' = (failedReads + 1) % (MaxFailed + 1)
  /\ UNCHANGED <<rpc, randomStart, lastRTPTime, stopped, sink, pipeStream, pipePos, buffer,
                 peakLen, frameCount, idle, sinkClosed>>
  /\ UNCHANGED mjpegRest

(* the server stopped: the deferred r.Close() closes the pipe and sets r.f  *)
(* to nil, the deferred stream.Close() closes the stream                    *)
MjpegClose ==
  /\ variant = "mjpegStreamer"
  /\ rpc = "read"
  /\ ~stopped
  /\ stopped' = TRUE
  /\ sinkClosed' = TRUE
  /\ UNCHANGED <<rpc, randomStart, lastRTPTime, sink, pipeStream, pipePos, buffer,
                 peakLen, frameCount, failedReads, idle>>
  /\ UNCHANGED mjpegRest

(* the handler closes the stream the task writes to (an ANNOUNCE replaces  *)
(* it): the pipe stays open                                                *)
MjpegStreamCloses ==
  /\ variant = "mjpegStreamer"
  /\ rpc = "read"
  /\ ~sinkClosed
  /\ sinkClosed' = TRUE
  /\ UNCHANGED <<rpc, randomStart, lastRTPTime, stopped, sink, pipeStream, pipePos, buffer,
                 peakLen, frameCount, failedReads, idle>>
  /\ UNCHANGED mjpegRest

MjpegNext ==
  \/ MjpegRunStart
  \/ MjpegRead
  \/ MjpegReadNothing
  \/ MjpegReadFails
  \/ MjpegClose
  \/ MjpegStreamCloses

MjpegSpec == MjpegInit /\ [][MjpegNext]_vars

(* the Go scheduler runs the task whenever it can take a step *)
MjpegFairSpec ==
  MjpegSpec /\ WF_vars(MjpegRunStart \/ MjpegRead \/ MjpegReadNothing \/ MjpegReadFails)

(* ------------- NewFileStreamer, Initialize, Stream, Close --------------- *)
(* A path is the sequence of its characters.  Open files are numbered:      *)
(* InputFile is the file NewFileStreamer opens, TempFile the transport      *)
(* stream Initialize of mp4FileStreamer opens; 0 is nil.  What is outside   *)
(* the repository is fixed as follows:                                      *)
(*  - os.Stat and os.Open succeed on a path that is present, os.Open fails  *)
(*    on one that cannot be read;                                           *)
(*  - ffmpeg, run by MP4ToTS, fails or writes a transport stream.           *)

InputFile == 1
TempFile == 2

Paths == {<<"v", ".", "t", "s">>, <<"v", ".", "m", "p", "4">>, <<"c", "a", "m">>,
          <<"v", ".", "t", "s", ".", "b">>, <<"t", "s">>, <<"v", ".", "T", "S">>,
          <<"a", ".", "m", "p", "4", ".", "t", "s">>}

(* the H264 format of the stream: SPS and PPS as StartServer set them *)
Formats == {[SPS |-> s, PPS |-> p, err |-> ""] : s \in {<<>>, SPS1}, p \in {<<>>, PPS1}}

(* what the transport stream and the pipe hold *)
StartFiles == {PlainFile, LateIDRFile}
StartPipes == {TwoPictureStream, NoMarkerStream}

(* the handler when StartServer calls NewFileStreamer *)
HandlerAtNew ==
  /\ pcMain = "streamSet"
  /\ wlock = MainTask
  /\ stream = 1
  /\ publisher = 0
  /\ streams = <<[desc |-> FileDesc, from |-> 0, prev |-> 0, closed |-> FALSE]>>
  /\ pacing = FALSE
  /\ sessState = [s \in Sessions |-> "none"]
  /\ pc = [s \in Sessions |-> "idle"]
  /\ setupped = {}
  /\ reading = [s \in Sessions |-> 0]
  /\ closeCalled = {}
  /\ written = {}
  /\ fwd = NoFwd
  /\ last = NoResp
  /\ pre = NoPre
  /\ unguarded = {}
  /\ crashed = ""

(* StartServer is about to call NewFileStreamer(stream, videoFilePath) *)
FileStreamerInit ==
  /\ HandlerAtNew
  /\ StreamerOff
  /\ FromStreamOff
  /\ FromPipeOff
  /\ MjpegOff
  /\ data = <<>>
  /\ nalus = <<>>
  /\ scanned = [by |-> "none", SPS |-> <<>>, PPS |-> <<>>, err |-> ""]
  /\ container = FALSE
  /\ probe = [out |-> "fail", hex |-> <<>>]
  /\ ffmpeg \in {"fail", "ok"}
  /\ pcExtract = "off"
  /\ tried = <<>>
  /\ h264Format \in Formats
  /\ path \in Paths
  /\ onDisk \in {"missing", "present", "unreadable"}
  /\ selected = "none"
  /\ npc = "new"
  /\ streamer = NoStreamer
  /\ closedHandles = {}
  /\ taskHandle = 0
  /\ transcodes = 0
  /\ initErr = ""

HasSuffix_Contains(s, suffix) ==
  \E i \in 0..(Len(s) - Len(suffix)) : SubSeq(s, i + 1, i + Len(suffix)) = suffix

(* strings.HasSuffix *)
HasSuffix(s, suffix) ==
  Len(s) >= Len(suffix) /\ SubSeq(s, Len(s) - Len(suffix) + 1, Len(s)) = suffix

(* NewFileStreamer: the type of the streamer made for the path *)
StreamerFor(p) ==
  IF HasSuffix(p, <<".", "t", "s">>) THEN "mjpegtsFileStreamer"
  ELSE IF HasSuffix(p, <<".", "m", "p", "4">>) THEN "mp4FileStreamer"
  ELSE "mjpegStreamer"

(* NewFileStreamer(stream, path): panics when the path is missing or the    *)
(* open fails                                                               *)
NewFileStreamer ==
  /\ npc = "new"
  /\ IF onDisk = "missing"
     THEN /\ npc' = "panicked"
          /\ UNCHANGED <<selected, streamer>>
     ELSE /\ selected' = StreamerFor(path)
          /\ IF onDisk = "unreadable"
             THEN /\ npc' = "panicked"
                  /\ UNCHANGED streamer
             ELSE /\ npc' = "created"
                  /\ streamer' = [NoStreamer EXCEPT !.stream = stream, !.f = InputFile]
  /\ UNCHANGED <<path, onDisk, closedHandles, taskHandle, transcodes, initErr>>
  /\ UNCHANGED <<handlerVars, streamerVars, extractVars, fromStreamVars, fromPipeVars, mjpegVars>>

HasParams_Either(sps, pps) == Len(sps) > 0 \/ Len(pps) > 0

(* run(): len(h264Format.SPS) > 0 && len(h264Format.PPS) > 0 *)
HasParams(sps, pps) == Len(sps) > 0 /\ Len(pps) > 0

(* go run() on file handle h of a streamer of type v, for stream st *)
Started(v, h) ==
  /\ variant' = v
  /\ hasParams' = HasParams(h264Format.SPS, h264Format.PPS)
  /\ rpc' = "start"
  /\ taskHandle' = h
  /\ IF v = "mjpegStreamer"
     THEN /\ pipeStream' \in StartPipes
          /\ f' = f
     ELSE /\ f' \in StartFiles
          /\ pipeStream' = pipeStream
  /\ initErr' = "nil"
  /\ npc' = "initialized"
  /\ pacing' = TRUE
  /\ pcMain' = "initialized"

(* no task is started and Initialize returns the error *)
Failed(err) ==
  /\ initErr' = err
  /\ npc' = "failed"
  /\ pcMain' = "returned"
  /\ UNCHANGED <<variant, hasParams, rpc, taskHandle, f, pipeStream, pacing>>

TranscodeFailed_Never(result) == FALSE

(* MP4ToTS: err != nil *)
TranscodeFailed(result) == result # "ok"

(* r.Initialize() of the streamer NewFileStreamer returned; in              *)
(* mp4FileStreamer MP4ToTS runs ffmpeg and waits for it, then the output is *)
(* opened and run() of a mjpegtsFileStreamer local to Initialize is started *)
Initialize ==
  /\ npc = "created"
  /\ IF streamer.f = 0
     THEN Failed("ErrInvalid") /\ UNCHANGED <<transcodes, streamer>>
     ELSE IF selected = "mp4FileStreamer"
     THEN /\ transcodes' = transcodes + 1
          /\ \E opened \in BOOLEAN :
               IF TranscodeFailed(ffmpeg)
               THEN Failed("convert") /\ UNCHANGED streamer
               ELSE IF ~opened
               THEN Failed("open") /\ UNCHANGED streamer
               ELSE /\ streamer' = [streamer EXCEPT !.temp = TempFile]
                    /\ Started("mjpegtsFileStreamer", TempFile)
     ELSE /\ Started(selected, streamer.f)
          /\ UNCHANGED <<transcodes, streamer>>
  /\ UNCHANGED <<path, onDisk, selected, closedHandles>>
  /\ UNCHANGED <<wlock, stream, publisher, streams, sessState, pc, setupped, reading, closeCalled,
                 written, fwd, last, pre, unguarded, crashed>>
  /\ UNCHANGED <<randomStart, lastRTPTime, firstDTS, firstTime, foundIDR, timeDecoder, offset,
                 passNo, now, slowLeft, stopped, sink>>
  /\ UNCHANGED <<extractVars, fromStreamVars, fromPipeVars>>
  /\ UNCHANGED <<pipePos, buffer, peakLen, frameCount, failedReads, idle, sinkClosed>>

(* Stream() of a streamer of type v with fields x *)
Stream(v, x) == IF v = "mp4FileStreamer" THEN x.s.stream ELSE x.stream

(* the fields after Close() of a streamer of type v, and the files it closed *)
Close(v, x) ==
  IF v = "mp4FileStreamer"
  THEN [streamer |-> [x EXCEPT !.temp = 0, !.f = 0, !.s.f = 0],
        closed |-> {x.temp, x.f, x.s.f} \ {0}]
  ELSE [streamer |-> [x EXCEPT !.f = 0], closed |-> {x.f} \ {0}]

(* StartServer stops: the deferred r.Close() and stream.Close() run while   *)
(* the task is running                                                      *)
FileStreamerClose ==
  /\ npc = "initialized"
  /\ rpc \in {"start", "setup", "read"}
  /\ LET c == Close(selected, streamer)
     IN /\ streamer' = c.streamer
        /\ closedHandles' = closedHandles \cup c.closed
        /\ stopped' = (taskHandle \in c.closed)
  /\ sinkClosed' = TRUE
  /\ npc' = "closed"
  /\ UNCHANGED <<path, onDisk, selected, taskHandle, transcodes, initErr>>
  /\ UNCHANGED <<handlerVars, extractVars, fromStreamVars, fromPipeVars>>
  /\ UNCHANGED <<variant, hasParams, f, rpc, randomStart, lastRTPTime, firstDTS, firstTime,
                 foundIDR, timeDecoder, offset, passNo, now, slowLeft, sink>>
  /\ UNCHANGED <<pipeStream, pipePos, buffer, peakLen, frameCount, failedReads, idle>>

(* the task started is run() of mjpegtsFileStreamer *)
FileTask == variant = "mjpegtsFileStreamer"

FileStreamerNext ==
  \/ NewFileStreamer
  \/ Initialize
  \/ FileStreamerClose
  \/ FileTask /\ RunStart
  \/ FileTask /\ PassSetup
  \/ FileTask /\ ReadAccessUnit
  \/ FileTask /\ ReadEOF
  \/ MjpegRunStart
  \/ MjpegRead
  \/ MjpegReadNothing
  \/ MjpegReadFails

FileStreamerSpec == FileStreamerInit /\ [][FileStreamerNext]_vars

(* ------------------------------ claims --------------------------------- *)

(* steps of the handlers, told by the position of the session's goroutine *)
AnnounceEnters(s) == wlock = NoLock /\ wlock' = s /\ sessState'[s] = "initial"
AnnounceReturns(s) == pc[s] = "announce_find" /\ pc'[s] = "idle"
ReaderReturns == last' # last /\ last'.req \in {"DESCRIBE", "SETUP"} /\ ~last'.preRecord
SessionCloseReturns(s) == pc[s] = "close_locked" /\ pc'[s] = "done"

(* C1: when an ANNOUNCE of session B was accepted while session A was the    *)
(* publisher, then A has been closed, B is the publisher of the stream       *)
(* created for B, and no packet received from A has been written to that     *)
(* stream.                                                                   *)
C1_SecondAnnounceWins ==
  \A x \in 1..Len(streams) :
    streams[x].prev # 0 =>
      /\ streams[x].prev \in closeCalled
      /\ (stream = x => publisher = streams[x].from)
      /\ <<streams[x].prev, x>> \notin written

(* C2: an ANNOUNCE with H.264 media handled while a stream is set and no     *)
(* publisher is recorded (the file-backed stream) does not stop the server   *)
(* and returns OK with the old stream closed, a new stream with the          *)
(* announced description installed and the announcing session as publisher.  *)
C2_AnnouncePreemptsFileStream ==
  [][\A s \in Sessions :
       /\ (AnnounceEnters(s) /\ stream # 0 /\ publisher = 0 /\ HasH264(pre'.desc))
            => crashed' = ""
       /\ (AnnounceReturns(s) /\ pre.stream # 0 /\ pre.publisher = 0 /\ HasH264(pre.desc))
            => /\ last'.status = "OK"
               /\ streams'[pre.stream].closed
               /\ stream' \notin {0, pre.stream}
               /\ streams'[stream'].desc = pre.desc
               /\ publisher' = s]_vars

(* the publisher's session has closed and its stream has been torn down *)
TornDown == publisher # 0 /\ pc[publisher] = "done"

(* C3: an ANNOUNCE with H.264 media handled after the publisher session has  *)
(* closed and its stream was torn down does not stop the server and returns  *)
(* OK with a new open stream installed and the announcing session as         *)
(* publisher.                                                                *)
C3_AnnounceAfterTeardown ==
  [][\A s \in Sessions :
       /\ (AnnounceEnters(s) /\ TornDown /\ stream = 0 /\ HasH264(pre'.desc))
            => crashed' = ""
       /\ (AnnounceReturns(s) /\ pre.stream = 0 /\ pre.publisher # 0 /\ HasH264(pre.desc))
            => /\ last'.status = "OK"
               /\ stream' # 0
               /\ ~streams'[stream'].closed
               /\ publisher' = s]_vars

(* C4: an ANNOUNCE without H.264 media handled while a stream is set leaves  *)
(* the stream reference, the stream (still open if it was) and the           *)
(* publisher as they were, and calls Close() on no session.                  *)
C4_RejectedAnnounceTouchesNothing ==
  [][\A s \in Sessions :
       /\ (AnnounceEnters(s) /\ stream # 0 /\ ~HasH264(pre'.desc))
            => /\ crashed' = ""
               /\ streams' = streams
               /\ closeCalled' = closeCalled
       /\ (AnnounceReturns(s) /\ pre.stream # 0 /\ ~HasH264(pre.desc))
            => /\ stream' = pre.stream
               /\ streams' = pre.streams
               /\ publisher' = pre.publisher
               /\ closeCalled' = pre.closeCalled]_vars

(* C5: every ANNOUNCE is answered: without H.264 media by BadRequest and an  *)
(* error, creating no stream and not recording the session as publisher;     *)
(* with H.264 media by OK, and then the set stream is open, carries the      *)
(* announced description and the announcing session is the publisher.        *)
C5_AnnounceAnswer ==
  [][\A s \in Sessions :
       /\ AnnounceEnters(s) => crashed' = ""
       /\ (AnnounceReturns(s) /\ ~HasH264(pre.desc))
            => /\ last'.status = "BadRequest" /\ last'.err
               /\ Len(streams') = Len(pre.streams)
               /\ publisher' # s
       /\ (AnnounceReturns(s) /\ HasH264(pre.desc))
            => /\ last'.status = "OK" /\ ~last'.err
               /\ stream' = Len(streams') /\ Len(streams') = Len(pre.streams) + 1
               /\ streams'[stream'].desc = pre.desc
               /\ ~streams'[stream'].closed
               /\ publisher' = s]_vars

(* C6: a DESCRIBE handled while h.stream is nil is answered NotFound with no *)
(* stream; a DESCRIBE handled while h.stream is set is answered OK with      *)
(* exactly that stream.                                                      *)
C6_DescribeAnswer ==
  last.req = "DESCRIBE" =>
    IF last.seen = 0
    THEN last.status = "NotFound" /\ last.stream = 0
    ELSE last.status = "OK" /\ last.stream = last.seen

(* a DESCRIBE was answered NotFound after a stream had existed and was torn down *)
C6_Witness ==
  /\ last.req = "DESCRIBE" /\ last.status = "NotFound"
  /\ Len(streams) > 0 /\ stream = 0

(* C7: when OnSessionClose runs for the recorded publisher, the stream is    *)
(* closed and h.stream cleared; from then on, until a new stream is created, *)
(* h.stream stays nil and every DESCRIBE and every reader SETUP is answered  *)
(* NotFound with no stream.                                                  *)
C7_PublisherCloseTearsDown ==
  /\ [](TornDown => stream = 0)
  /\ [][\A s \in Sessions :
          (SessionCloseReturns(s) /\ s = publisher /\ stream # 0)
            => stream' = 0 /\ streams'[stream].closed]_vars
  /\ [][(TornDown /\ stream = 0 /\ stream' # 0) => Len(streams') > Len(streams)]_vars
  /\ [][(ReaderReturns /\ TornDown /\ stream = 0)
          => /\ last'.status = "NotFound"
             /\ last'.stream = 0
             /\ reading' = reading]_vars

(* after the publisher closed, a reader's SETUP was answered NotFound *)
C7_Witness ==
  /\ TornDown /\ stream = 0
  /\ streams[Len(streams)].closed
  /\ last.req = "SETUP" /\ ~last.preRecord /\ last.status = "NotFound"

(* C8: a packet is written into the set stream only when it was received     *)
(* from the session recorded as publisher at that moment.                    *)
C8_OnlyPublisherWrites ==
  [][\A w \in written' \ written : w[1] = publisher /\ w[2] = stream]_vars

(* C9: every read of h.stream is made with the handler lock held in read or  *)
(* write mode, every write with it held in write mode, and the forwarding    *)
(* callback never reads h.stream while a handler holds the write lock.       *)
C9_LockDiscipline ==
  /\ "read" \notin unguarded
  /\ "write" \notin unguarded
  /\ "read during write" \notin unguarded

(* StartServer is between h.Lock() and h.Unlock(), or returned without unlocking *)
InitWindow == pcMain \in {"locked", "started", "described", "streamReady", "streamSet",
                          "initialized", "returned"}

(* C10: while StartServer is between h.Lock() and h.Unlock() it holds the    *)
(* write lock and no handler returns; a file-backed stream is handed to a    *)
(* client only after its pacing task has been started.                       *)
C10_InitWindowExcludesClients ==
  /\ [](InitWindow => wlock = MainTask)
  /\ [][InitWindow => /\ last' = last
                      /\ sessState' = sessState
                      /\ \A s \in Sessions : pc[s] # "idle" => pc'[s] = pc[s]]_vars
  /\ [](last.stream # 0 /\ streams[last.stream].from = 0 => pacing /\ pcMain = "ready")

(* the stream is set but its pacing task not started, and a DESCRIBE is blocked *)
C10_Witness ==
  /\ pcMain = "streamSet" /\ stream # 0 /\ ~pacing
  /\ \E s \in Sessions : pc[s] = "describe"

(* C11: every run of the forwarding callback (one per packet received from a *)
(* session whose RECORD was acknowledged, each completed before the next     *)
(* packet of that session is handled) finds a stream set, passes the packet  *)
(* and the media it arrived on unchanged to WritePacketRTP of the stream set *)
(* at that moment, does not stop the server, and, also when the write        *)
(* returns an error, leaves every session as it was.                         *)
C11_PacketsForwardedVerbatim ==
  [][fwd'.sess # 0 =>
       /\ crashed' = ""
       /\ stream # 0
       /\ fwd'.seen = stream
       /\ fwd'.out = <<fwd'.medi, fwd'.pkt>>
       /\ fwd'.result = (IF streams[stream].closed THEN "error" ELSE "written")
       /\ sessState' = sessState
       /\ closeCalled' = closeCalled
       /\ pc' = pc]_vars

(* C12: a SETUP of a session in pre-record is answered OK with no stream,    *)
(* whatever h.stream is; a SETUP of any other session is answered NotFound   *)
(* with no stream when h.stream is nil and OK with h.stream otherwise.       *)
C12_SetupAnswer ==
  [][(last' # last /\ last'.req = "SETUP") =>
       IF last'.preRecord
       THEN last'.status = "OK" /\ last'.stream = 0
       ELSE IF stream = 0
            THEN last'.status = "NotFound" /\ last'.stream = 0
            ELSE last'.status = "OK" /\ last'.stream = stream]_vars

(* while a stream is set, the SETUP of its publisher was answered OK without it *)
C12_Witness ==
  /\ last.req = "SETUP" /\ last.preRecord
  /\ last.status = "OK" /\ last.stream = 0
  /\ stream # 0 /\ publisher \in setupped

(* C13: the close of a session that is not the recorded publisher changes    *)
(* neither h.stream, nor any stream (its description, whether it is closed), *)
(* nor h.publisher.                                                          *)
C13_OtherCloseLeavesStream ==
  [][\A s \in Sessions :
       (/\ s # publisher
        /\ \/ pc[s] = "idle" /\ pc'[s] = "close_locked"
           \/ SessionCloseReturns(s))
         => /\ stream' = stream
            /\ streams' = streams
            /\ publisher' = publisher]_vars

(* a session other than the publisher has closed and the publisher's stream is open *)
C13_Witness ==
  /\ publisher # 0 /\ stream # 0 /\ ~streams[stream].closed
  /\ streams[stream].from = publisher
  /\ \E s \in Sessions : s # publisher /\ pc[s] = "done"

(* C14: the description of the stream returned by a DESCRIBE answered OK     *)
(* has exactly one video media entry.                                        *)
C14_OneVideoMedia ==
  (last.req = "DESCRIBE" /\ last.status = "OK")
    => VideoCount(streams[last.stream].desc) = 1

(* ------------------------ claims on the streamer ------------------------- *)

(* the first packet of every access unit of the file handed to the sink *)
Units == SelectSeq(sink, LAMBDA e : e.au # 0 /\ e.frag = 1)

(* b follows a in the 32-bit timestamp space: 0 < (b - a) mod 2^32 < 2^31 *)
After32(a, b) == LET d == Sub32(b, a) IN d # <<0, 0>> /\ d[1] < Half \div 2

(* (b - a) mod 2^32 is at most n *)
Within32(a, b, n) == LET d == Sub32(b, a) IN d[1] = 0 /\ d[2] <= n

(* the timestamps of the access units that follow each other in the sink     *)
(* increase, and across a rewind by no more than one frame interval          *)
Continuous ==
  \A i \in 1..(Len(Units) - 1) :
    /\ After32(Units[i].ts, Units[i + 1].ts)
    /\ Units[i + 1].pass # Units[i].pass
         => Within32(Units[i].ts, Units[i + 1].ts, FrameInterval)

(* C15 as stated: for every file, across the rewinds, the packet timestamps  *)
(* increase strictly from one access unit to the next and the step across a  *)
(* rewind does not exceed one frame interval.                                *)
C15_TimestampsContinuous == Continuous

(* the access units of the file whose PTS increases in file order *)
InPresentationOrder(file) == \A i \in 1..(Len(file) - 1) : file[i + 1].pts > file[i].pts

(* the access units of the file the streamer sends in a pass *)
Sent(file, v) ==
  {n \in 1..Len(file) : v = "mjpegtsFileStreamer" => \E m \in 1..n : IsIDR(file[m])}

(* the first access unit sent in a pass is presented less than one frame     *)
(* interval after the first DTS of the file                                  *)
StartsAtOnce(file, v) ==
  /\ Sent(file, v) # {}
  /\ LET n == CHOOSE k \in Sent(file, v) : \A j \in Sent(file, v) : k <= j
     IN file[n].pts - file[1].dts < FrameInterval

(* C15 amended: for a file whose access units are in presentation order and  *)
(* whose first access unit sent is presented less than one frame interval    *)
(* after the first DTS, the packet timestamps increase strictly (mod 2^32)   *)
(* from one access unit to the next across the rewinds, and the step across  *)
(* a rewind does not exceed one frame interval.                              *)
C15_ContinuousInPresentationOrder ==
  (InPresentationOrder(f) /\ StartsAtOnce(f, variant)) => Continuous

(* two rewinds were made on such a file, with a base that wraps *)
C15_Witness ==
  /\ InPresentationOrder(f) /\ StartsAtOnce(f, variant)
  /\ variant = "mjpegtsFileStreamer"
  /\ Len(Units) > 0 /\ Units[Len(Units)].pass = 3
  /\ \E i \in 1..Len(Units) : Units[i].ts[1] = 0 /\ Units[1].ts[1] = Half - 1

(* C16: at every end-of-file, once a packet was handed to the sink, the base *)
(* of the next pass is the timestamp of the last packet handed to the sink,  *)
(* plus one (mod 2^32), also when the pass that ends sent no access unit.    *)
C16_BaseFollowsLastTimestamp ==
  [][(rpc = "read" /\ rpc' = "setup" /\ sink # <<>>)
       => randomStart' = Add32(sink[Len(sink)].ts, 1)]_vars

(* C17: every packet made of an access unit is stamped (base of its pass +   *)
(* PTS) mod 2^32, the PTS in 90 kHz ticks counted from the first DTS of the  *)
(* pass; the packets of one access unit carry the same timestamp and are     *)
(* handed to the sink as the encoder ordered them, all of them.              *)
C17_PacketTimestamps ==
  /\ \A i \in 1..Len(sink) :
       sink[i].au # 0 =>
         /\ sink[i].pts = f[sink[i].au].pts - f[1].dts
         /\ sink[i].ts = Add32(sink[i].base, sink[i].pts)
         /\ sink[i].frag \in 1..f[sink[i].au].frags
         /\ IF sink[i].frag = 1
            THEN i + f[sink[i].au].frags - 1 <= Len(sink)
            ELSE /\ sink[i - 1].au = sink[i].au
                 /\ sink[i - 1].pass = sink[i].pass
                 /\ sink[i - 1].frag = sink[i].frag - 1
                 /\ sink[i - 1].ts = sink[i].ts
  /\ \A i, j \in 1..Len(sink) :
       (sink[i].au # 0 /\ sink[j].au # 0 /\ sink[i].pass = sink[j].pass)
         => sink[i].base = sink[j].base

(* an access unit presented later than decoded was sent in two packets, and  *)
(* its timestamp wrapped                                                     *)
C17_Witness ==
  \E i \in 1..Len(sink) :
    /\ sink[i].frag = 2
    /\ sink[i].pts # sink[i].dts
    /\ sink[i].base[1] = Half - 1 /\ sink[i].ts[1] = 0

(* the first access unit sent in the pass of entry e *)
EpochOf(e) ==
  LET i == CHOOSE k \in 1..Len(Units) :
             /\ Units[k].pass = e.pass
             /\ \A j \in 1..Len(Units) : Units[j].pass = e.pass => k <= j
  IN Units[i]

SentInPass ==
  LET cur == SelectSeq(sink, LAMBDA e : e.au # 0 /\ e.pass = passNo)
  IN [i \in 1..Len(cur) |-> <<cur[i].au, cur[i].frag>>]

(* <<access unit, packet>> of every packet of the access units 1..n that are *)
(* in the set keep, in file order                                            *)
RECURSIVE PacketsOfUnits(_, _)
PacketsOfUnits(n, keep) ==
  IF n = 0 THEN <<>>
  ELSE PacketsOfUnits(n - 1, keep)
         \o (IF n \in keep THEN [k \in 1..f[n].frags |-> <<n, k>>] ELSE <<>>)

C20_RewindAtEOF ==
  /\ [][(rpc = "read" /\ offset = Len(f) /\ rpc' # rpc /\ ~stopped)
          => rpc' = "setup" /\ offset' = 0]_vars
  /\ [][(rpc = "setup" /\ rpc' = "read")
          => /\ passNo' = passNo + 1
             /\ offset' = 0
             /\ ~timeDecoder'.initialized
             /\ firstDTS' = Nil]_vars
  /\ [](rpc = "panicked" => stopped)
  /\ \A n \in 1..(MaxPasses - 1) :
       (rpc = "setup" /\ passNo = n) ~> (stopped \/ (passNo = n + 1 /\ offset >= 1))

(* the first read of the third pass was made *)
C20_Witness == ~stopped /\ passNo = 3 /\ offset = 1 /\ rpc = "read"


(* ---------------------- claims on the extraction ----------------------- *)

OneOfEach == Len(OfType(nalus, 7)) = 1 /\ Len(OfType(nalus, 8)) = 1

(* C23: a scan of a buffer in Annex-B form that holds exactly one SPS and   *)
(* one PPS, in either order, behind start codes of 3 or 4 bytes and among   *)
(* NAL units of other types, returns the bytes of the SPS and of the PPS,   *)
(* none missing and none of a start code added.                              *)
C23_ScanByteExact ==
  (scanned.by # "none" /\ OneOfEach)
    => /\ scanned.SPS = OfType(nalus, 7)[1].nal
       /\ scanned.PPS = OfType(nalus, 8)[1].nal

(* x holds the leading bytes of the NAL unit, or the unit and more *)
CutOf(x, nal) ==
  \/ (Len(x) <= Len(nal) /\ x = SubSeq(nal, 1, Len(x)))
  \/ (Len(x) > Len(nal) /\ nal = SubSeq(x, 1, Len(nal)))

(* C24: whatever the scan function, an SPS it returns is the first SPS of   *)
(* the buffer and a PPS it returns is the first PPS of the buffer, so that  *)
(* no NAL unit behind the first of each type has a part in the result.      *)
C24_FirstOccurrenceWins ==
  scanned.by # "none"
    => /\ scanned.SPS # <<>> => CutOf(scanned.SPS, OfType(nalus, 7)[1].nal)
       /\ scanned.PPS # <<>> => CutOf(scanned.PPS, OfType(nalus, 8)[1].nal)

(* what each strategy returns for the file at hand: the probe of the       *)
(* container's metadata, the pass through the external decoder, and the     *)
(* scan of the file's own bytes (a raw file holds the Annex-B buffer)       *)
ByProbe == ExtractH264ParametersFromHex(container, probe.out, probe.hex)
ByDecoder == ExtractH264Parameters(ffmpeg, data)
ByScan ==
  IF container THEN [NoParams EXCEPT !.err = "SPS not found in stream"]
  ELSE ExtractH264ParametersFromStream(nalus)

(* C25: StartServer uses the result of the first strategy that succeeds, in *)
(* the order probe, decoder pass, direct scan; a failure only leads to the  *)
(* next strategy; when all three fail the format is built with empty SPS    *)
(* and PPS.                                                                 *)
C25_FirstSuccessOfThree ==
  pcExtract = "done"
    => h264Format = IF ByProbe.err = "" THEN ByProbe
                    ELSE IF ByDecoder.err = "" THEN ByDecoder
                    ELSE IF ByScan.err = "" THEN ByScan
                    ELSE NoParams

(* C26: the H264 format StartServer builds for the file-backed stream has   *)
(* an SPS and a PPS, neither empty, or has neither, and it has neither only *)
(* when every extraction StartServer tried failed.                          *)
C26_BothOrNeither ==
  pcExtract = "done"
    => \/ h264Format.SPS # <<>> /\ h264Format.PPS # <<>>
       \/ /\ h264Format.SPS = <<>> /\ h264Format.PPS = <<>>
          /\ ByProbe.err # "" /\ ByDecoder.err # ""

(* the probe failed and the decoder pass gave both, out of a buffer with    *)
(* more than the two parameter sets                                         *)
C26_Witness ==
  /\ pcExtract = "done"
  /\ Len(tried) = 2
  /\ Len(nalus) = 3
  /\ h264Format.SPS # <<>> /\ h264Format.PPS # <<>>

(* ------------- claims on ExtractH264ParametersFromStream --------------- *)

(* C28: ExtractH264ParametersFromStream returns on every input; the bytes   *)
(* it has read by then are fewer than the cap of 1 MiB plus one chunk of    *)
(* 8 KiB; and it returns either parameters with both the SPS and the PPS    *)
(* or an error, never parameters with one of the two.                       *)
C28_BoundedScan ==
  /\ [](consumed < MaxBytes + ChunkSize)
  /\ [](spc = "returned"
          => \/ returned = [ret |-> "params", SPS |-> TRUE, PPS |-> TRUE]
             \/ returned = [ret |-> "error", SPS |-> FALSE, PPS |-> FALSE])
  /\ <>(spc = "returned")

(* the cap ended the loop after more than 1 MiB, with only the SPS found *)
C28_Witness ==
  /\ spc = "returned"
  /\ bytesRead = MaxBytes - 1 + ChunkSize
  /\ found = {7}
  /\ returned.ret = "error"

(* -------------- claims on ExtractH264ParametersFromPipe --------------- *)

(* C27: ExtractH264ParametersFromPipe returns, and no later than the        *)
(* timeout; what it returns is set once and is either parameters with both  *)
(* the SPS and the PPS or an error; and whenever the reader goroutine is    *)
(* about to send its result, the channel has room for it, also after the    *)
(* caller has returned.                                                     *)
C27_OneOutcomeInTime ==
  /\ <>(cpc = "returned")
  /\ [](cpc = "returned"
          => /\ outcome.at <= timeout
             /\ \/ outcome.ret = "params" /\ outcome.got = {7, 8}
                \/ outcome.ret = "error" /\ outcome.got = {})
  /\ [][outcome # NoOutcome => outcome' = outcome]_vars
  /\ [](gpc = "sendDone" => Len(doneChan) < ChanCap)
  /\ [](gpc = "sendErr" => Len(errChan) < ChanCap)

(* a pipe whose writer never writes: the caller returned on the timeout of  *)
(* 12 s, and the goroutine left its own timeout error in the channel        *)
C27_Witness ==
  /\ cpc = "returned"
  /\ pipe = "silent"
  /\ outcome.at = LongTimeout
  /\ gpc = "ended"
  /\ Len(errChan) = 1

(* the picture the bytes begin: how many bytes lie before its start marker  *)
(* and how long it is; -1 where no start marker is followed by an end       *)
(* marker                                                                   *)
FirstPicture(bytes) ==
  LET start == findJPEGStart(bytes)
      end == IF start = -1 THEN -1 ELSE findJPEGEnd(Slice(bytes, start, Len(bytes)), 2)
  IN [start |-> IF end = -1 THEN -1 ELSE start, len |-> end]

(* a stream without end in which no start marker is ever followed by an    *)
(* end marker                                                               *)
PictureFree(s) ==
  /\ s.loop # <<>>
  /\ FirstPicture(s.head \o s.loop \o s.loop \o s.loop).start = -1

(* C29 as stated: on a stream without end and without a complete picture   *)
(* the buffer of the raw-pipe reader holds at most the cap at every point   *)
(* of the read loop, the point right after the append included.             *)
C29_NeverPastCap ==
  (variant = "mjpegStreamer" /\ PictureFree(pipeStream)) => peakLen <= BufferCap

(* C29: on a stream without end and without a complete picture the buffer  *)
(* holds at most the cap whenever the loop is about to read and at most    *)
(* the cap plus one read right after the append; a buffer that exceeded    *)
(* the cap after the append was cut to its last half.                      *)
C29_BoundedBuffer ==
  (variant = "mjpegStreamer" /\ PictureFree(pipeStream)) =>
    /\ Len(buffer) <= BufferCap
    /\ peakLen <= BufferCap + FrameBufferSize
    /\ peakLen > BufferCap => Len(buffer) = peakLen - (peakLen \div 2)

(* a stream without a complete picture filled the buffer past the cap and  *)
(* the last half was kept                                                  *)
C29_Witness ==
  /\ variant = "mjpegStreamer"
  /\ PictureFree(pipeStream)
  /\ peakLen > BufferCap
  /\ Len(buffer) = peakLen - (peakLen \div 2)
  /\ frameCount = 0

(* the complete pictures of the bytes, in order: each runs from a start    *)
(* marker through the next end marker                                      *)
RECURSIVE PicturesOf(_)
PicturesOf(bytes) ==
  LET first == FirstPicture(bytes)
  IN IF first.start = -1 THEN <<>>
     ELSE <<Slice(bytes, first.start, first.start + first.len)>>
            \o PicturesOf(Slice(bytes, first.start + first.len, Len(bytes)))

(* the complete pictures among the bytes read so far *)
PicturesRead ==
  IF PictureFree(pipeStream) THEN <<>>
  ELSE PicturesOf(SubSeq(pipeStream.head, 1, pipePos))

(* the access units made of pictures, in the order written: the unit with  *)
(* SPS and PPS is number 0                                                 *)
PictureUnits == SelectSeq(sink, LAMBDA p : p.au > 0)

(* the n-th unit carries base + n*3000 and follows its predecessor by one  *)
(* frame interval                                                          *)
EvenlyStamped ==
  /\ \A n \in 1..Len(PictureUnits) :
       /\ PictureUnits[n].au = n
       /\ PictureUnits[n].ts = Add32(randomStart, n * TicksPerFrame)
  /\ \A n \in 1..(Len(PictureUnits) - 1) :
       Sub32(PictureUnits[n + 1].ts, PictureUnits[n].ts) = <<0, TicksPerFrame>>

(* C30 as stated: the raw-pipe reader emits exactly one access unit per    *)
(* complete picture read, in stream order, and the n-th carries the        *)
(* timestamp base + n*3000.                                                *)
C30_OnePerPicture ==
  variant = "mjpegStreamer" =>
    /\ [n \in 1..Len(PictureUnits) |-> PictureUnits[n].frame] = PicturesRead
    /\ EvenlyStamped

(* no complete picture of the stream is longer than the limit of the       *)
(* buffer                                                                  *)
PicturesFit ==
  \A n \in 1..Len(PicturesOf(pipeStream.head)) : Len(PicturesOf(pipeStream.head)[n]) <= BufferCap

(* C30: on a stream whose complete pictures are no longer than the limit   *)
(* of the buffer, the raw-pipe reader emits exactly one access unit per    *)
(* complete picture of at least 10 bytes, in stream order, and none for a  *)
(* shorter one; the n-th emitted unit carries base + n*3000 (modulo 2^32), *)
(* so consecutive units differ by exactly one frame interval.              *)
C30_OnePerSizedPicture ==
  (variant = "mjpegStreamer" /\ PicturesFit) =>
    /\ [n \in 1..Len(PictureUnits) |-> PictureUnits[n].frame]
         = SelectSeq(PicturesRead, LAMBDA p : Len(p) >= MinFrame)
    /\ EvenlyStamped

(* three pictures were read, the one of 6 bytes between two of 10 bytes,   *)
(* and two units were written, the second one frame interval after the     *)
(* first                                                                   *)
C30_Witness ==
  /\ variant = "mjpegStreamer"
  /\ PicturesFit
  /\ Len(PicturesRead) = 3
  /\ \E n \in 1..3 : Len(PicturesRead[n]) < MinFrame
  /\ Len(PictureUnits) = 2
  /\ PictureUnits[2].ts = Add32(randomStart, 2 * TicksPerFrame)

(* C21: in the raw-pipe reader a read that fails with an error other than  *)
(* end of file, or a write the stream refuses, ends the pacing task.       *)
C21_ErrorEndsTask ==
  [][(/\ variant = "mjpegStreamer"
      /\ \/ failedReads' # failedReads
         \/ /\ Len(sink') > Len(sink)
            /\ ~sink'[Len(sink')].ok)
     => rpc' = "ended"]_vars

(* C22: after Close() closed the pipe of the raw-pipe reader its pacing    *)
(* task ends after finitely many steps.                                    *)
C22_CloseEndsTask ==
  (variant = "mjpegStreamer" /\ stopped) ~> (rpc = "ended")

(* ------------------ more claims on the handler and StartServer ---------- *)

(* C34: the close of session A, which was the publisher until the ANNOUNCE  *)
(* of the recorded publisher B replaced it, leaves h.stream, the stream     *)
(* created for B and h.publisher as they were.                              *)
C34_PreemptedCloseSparesStream ==
  [][\A a \in Sessions :
       (/\ SessionCloseReturns(a)
        /\ stream # 0 /\ publisher # 0 /\ publisher # a
        /\ streams[stream].from = publisher
        /\ streams[stream].prev = a)
         => /\ stream' = stream
            /\ streams'[stream] = streams[stream]
            /\ publisher' = publisher]_vars

(* the publisher that was replaced has been closed; the stream of its      *)
(* successor is set and open                                               *)
C34_Witness ==
  /\ stream # 0 /\ publisher # 0
  /\ streams[stream].from = publisher
  /\ ~streams[stream].closed
  /\ streams[stream].prev # 0 /\ streams[stream].prev # publisher
  /\ pc[streams[stream].prev] = "done"

(* C35: a recorded publisher implies a set stream, and the disconnect step  *)
(* of OnAnnounce calls Close() on no nil stream and no nil session.         *)
C35_PublisherImpliesStream ==
  /\ publisher # 0 => stream # 0
  /\ crashed # "OnAnnounce"

(* C36: once StartServer has returned, no client request is left blocked    *)
(* on a handler lock that StartServer still holds.                          *)
C36_StopReleasesClients ==
  (pcMain = "returned" /\ \E s \in Sessions : pc[s] = "describe") => wlock # MainTask

(* ------------------ more claims on the pacing tasks --------------------- *)

(* the first n access units of the file hold one with an IDR *)
IDRWithin(n) == \E m \in 1..n : IsIDR(f[m])

(* C37: in mjpegtsFileStreamer no access unit that precedes the first       *)
(* access unit with an IDR is handed to the sink in any pass; every access  *)
(* unit delivered in the pass from that one on is handed to the sink; and   *)
(* every pass starts with the gate closed.                                  *)
C37_IDRGate ==
  /\ [](variant = "mjpegtsFileStreamer" =>
          /\ \A i \in 1..Len(sink) : sink[i].au # 0 => IDRWithin(sink[i].au)
          /\ rpc = "read" =>
               /\ foundIDR = IDRWithin(offset)
               /\ \A n \in 1..offset :
                    IDRWithin(n) => \E i \in 1..Len(sink) :
                                      sink[i].pass = passNo /\ sink[i].au = n)
  /\ [][(variant = "mjpegtsFileStreamer" /\ rpc = "setup" /\ rpc' = "read")
          => ~foundIDR']_vars

(* the second pass over the file that starts in the middle of a group of    *)
(* pictures: the first unit was skipped again, the IDR and its successor    *)
(* were sent                                                                *)
C37_Witness ==
  /\ variant = "mjpegtsFileStreamer" /\ f = LateIDRFile
  /\ rpc = "read" /\ passNo = 2 /\ offset = Len(f) /\ foundIDR
  /\ \A i \in 1..Len(sink) : sink[i].au # 1
  /\ \A n \in 2..Len(f) : \E i \in 1..Len(sink) : sink[i].pass = 2 /\ sink[i].au = n

(* C33: the file of a running pacing task is closed or reassigned by no     *)
(* other task: Close() takes effect only when the task does not use the     *)
(* file.                                                                    *)
C33_HandleOwnedByTask ==
  [][(~stopped /\ stopped') => rpc \notin {"setup", "read"}]_vars

(* ---------------- claims on NewFileStreamer and Initialize --------------- *)

(* C31: for a path ending in .mp4 the transcoder has run exactly once, and  *)
(* with success, whenever the task on its output exists; when it failed,    *)
(* Initialize returned the error of the conversion, opened no output,       *)
(* started no task, and the transcoder ran once only.                       *)
C31_TranscodeOnceBeforeRead ==
  /\ transcodes <= 1
  /\ selected = "mp4FileStreamer" =>
       /\ (rpc # "off" \/ taskHandle # 0 \/ streamer.temp # 0 \/ TempFile \in closedHandles)
            => transcodes = 1 /\ ffmpeg = "ok" /\ initErr = "nil"
       /\ (ffmpeg = "fail" /\ transcodes = 1) =>
            /\ initErr = "convert"
            /\ transcodes = 1
            /\ npc = "failed"
            /\ streamer.temp = 0 /\ TempFile \notin closedHandles
            /\ taskHandle = 0 /\ rpc = "off" /\ ~pacing /\ sink = <<>>
  /\ selected # "mp4FileStreamer" => transcodes = 0

(* the transcoder failed for a .mp4 path and Initialize returned *)
C31_Witness ==
  /\ selected = "mp4FileStreamer" /\ npc = "failed" /\ initErr = "convert"
  /\ transcodes = 1 /\ rpc = "off"

(* the type NewFileStreamer makes for a path, by the end of the path *)
TypeByEnding(p) ==
  LET n == Len(p)
  IN IF n >= 3 /\ p[n - 2] = "." /\ p[n - 1] = "t" /\ p[n] = "s" THEN "mjpegtsFileStreamer"
     ELSE IF n >= 4 /\ p[n - 3] = "." /\ p[n - 2] = "m" /\ p[n - 1] = "p" /\ p[n] = "4"
     THEN "mp4FileStreamer"
     ELSE "mjpegStreamer"

(* C32: for a path that exists the streamer is chosen by the end of the     *)
(* path alone: .ts the transport-stream reader, .mp4 the transcoding        *)
(* reader, anything else the raw-pipe reader; the choice is made once and   *)
(* never changed.                                                           *)
C32_SelectedByExtension ==
  /\ []((npc \notin {"off", "new"} /\ onDisk # "missing") => selected = TypeByEnding(path))
  /\ [](onDisk = "missing" => selected = "none")
  /\ [][selected # "none" => selected' = selected]_vars

(* a path with .ts in the middle got the raw-pipe reader, whose task runs *)
C32_Witness ==
  /\ path = <<"v", ".", "t", "s", ".", "b">>
  /\ selected = "mjpegStreamer" /\ npc = "initialized" /\ rpc = "read"

(* both parameter sets of the stream's format are non-empty *)
BothSets == Len(h264Format.SPS) > 0 /\ Len(h264Format.PPS) > 0

(* the task has taken its first step, with the stream open *)
TaskBegins == rpc = "start" /\ rpc' # "start" /\ ~sinkClosed

(* C38: with its first step the task hands the SPS/PPS unit, stamped with   *)
(* the random base, to the sink when both sets are non-empty, and nothing   *)
(* when one is empty; the unit is never handed over again, and no other     *)
(* unit comes before it.                                                    *)
C38_ParametersFirstOnce ==
  /\ [][TaskBegins =>
          IF BothSets
          THEN Len(sink') = 1 /\ sink'[1].au = 0 /\ sink'[1].ts = randomStart'
          ELSE sink' = <<>>]_vars
  /\ [](\A i \in 1..Len(sink) : sink[i].au = 0 => i = 1 /\ BothSets)
  /\ [](rpc \in {"off", "start"} => sink = <<>>)

(* in the second pass over the file the SPS/PPS unit is still the only one  *)
(* of its kind, ahead of the access units of both passes                    *)
C38_Witness ==
  /\ BothSets /\ variant = "mjpegtsFileStreamer" /\ passNo = 2 /\ rpc = "read"
  /\ sink # <<>> /\ sink[1].au = 0
  /\ \E i \in 2..Len(sink) : sink[i].pass = 2

(* C39: Stream() of the streamer NewFileStreamer returned is the stream     *)
(* given to NewFileStreamer, before and after Initialize, and Close()       *)
(* after Initialize closes the file the pacing task reads.                  *)
C39_StreamAndClose ==
  /\ npc \in {"created", "initialized"} => Stream(selected, streamer) = stream
  /\ npc = "closed" => taskHandle \in closedHandles

====
